---- MODULE Spec2Model ----
(***************************************************************************)
(* Verification model of qwen-auth: the sliding-window RateLimiter, the    *)
(* AuthManager orchestrator with its providers and credential store, and   *)
(* the QwenOAuthDeviceFlow poll loop.                                      *)
(*                                                                         *)
(* Conventions                                                             *)
(*   - `now` is Date.now().  In the limiter / manager specifications it is *)
(*     counted in milliseconds; in the device-flow specification every     *)
(*     duration is counted in quarter milliseconds (see Ms) so that the    *)
(*     x1.5 back-off of the poll interval stays exact.                     *)
(*   - JavaScript null / undefined of a numeric field is written 0, which  *)
(*     is what the code's truthiness tests (`state.lockedUntil && ...`,    *)
(*     `!this.deviceCode`) make of it.                                     *)
(***************************************************************************)
EXTENDS Integers, Sequences, FiniteSets, TLC

(***************************************************************************)
(* Bounds of the model                                                     *)
(***************************************************************************)
MaxTime == 5            \* the clock of the limiter/manager specifications stops here
MaxCfgAttempts == 2     \* maxAttempts is drawn from 1..MaxCfgAttempts
MaxCfgWindowMs == 2     \* windowMs is drawn from 1..MaxCfgWindowMs
MaxCfgLockoutMs == 3    \* lockoutMs is drawn from 1..MaxCfgLockoutMs

MaxExpiresIn == 4       \* the device-code response's expires_in is drawn from 1..MaxExpiresIn (seconds)
MaxInterval == 2        \* ... and its interval from 0 (absent) .. MaxInterval (seconds), or one of:
NearCapInterval == 7    \* an advertised interval that one slow_down takes to the 10 s cap
BigInterval == 15       \* an advertised interval above the 10 s cap of the back-off
MaxAmSteps == 5         \* AuthManager steps (calls and their completions) in one behaviour
MaxAmTime == 3          \* the clock while a manager is live runs from 1 to MaxAmTime
MaxInFlight == 2        \* authenticate() calls awaiting their provider at once
ShortExpiresIn == 240   \* expires_in (s) of a token that is stale at once (4 minutes: under the buffer)
LongExpiresIn == 360    \* ... and of one that is not (6 minutes)
MaxCalls == 3           \* startAuthorization and waitForAuthorization calls made, over all sessions
MaxSessionCalls == 4    \* ... made on the two sessions of SpecDF2 together
MaxLiveCalls == 2       \* ... and the calls made where termination is checked
MaxIssued == 4          \* oauthFetch calls, provider calls and refresh answers, over one behaviour
MaxLen == 2             \* code units in a string handed to encrypt or kept as an API key
MaxCsTime == 2          \* the clock of the storage calls runs from 1 to MaxCsTime
MaxOfMinutes == 1       \* minutes the clock advances while oauthFetch calls are made

Identifiers == {"default", "user1"}
Sessions == {1, 2}      \* QwenOAuthDeviceFlow objects

VARIABLES
    now,        \* Date.now()
    rlConfig,   \* RateLimiter.config
    states,     \* RateLimiter.states : identifier -> RateLimitState
    rlLast,     \* the last call made on the limiter: the lockout it found, the value it returned
    winCalls,   \* per identifier: the recordAttempt calls of its current window, counted apart
    flow,       \* per session: the fields of the QwenOAuthDeviceFlow object
    flowPc,     \* per session: where its startAuthorization / waitForAuthorization call stands
    call,       \* per session: the locals of the call in progress and what the call has done
    nextPkce,   \* the next fresh PKCE pair (generatePKCEPair never repeats one)
    calls,      \* startAuthorization and waitForAuthorization calls made so far
    mgrConfig,  \* AuthManager.config: method, security settings, whether the credential is usable
    provider,   \* AuthManager.provider and the fields of the provider object
    initialized, \* AuthManager.initialized
    store,      \* the credentials file
    inflight,   \* per identifier: authenticate() calls awaiting provider.authenticate()
    amSteps,    \* AuthManager steps taken so far; the serial of the next token issued or signed
    amLast,     \* the last AuthManager step: what it returned, which collaborators it called
    tokenCall,  \* the refreshAccessToken call in progress: its position, the requests it sent
    hostAuth,   \* the credential the host keeps for the provider: getAuth() reads it, auth.set writes it
    fetchCall,  \* per oauthFetch call: its position, the currentAuth it holds, what it has sent
    redeemed,   \* the refresh tokens sent to the token endpoint by oauthFetch calls, in order
    issued,     \* oauthFetch and provider calls made so far; the serial of the next token issued
    credFile,   \* the credentials file as loadCredentials / saveCredentials find it
    csLast,     \* the last storage call: its arguments and what it returned
    box         \* the last encrypt() call, its envelope, and the decrypt() made on it

rlVars == <<rlConfig, states, rlLast, winCalls>>
dfVars == <<flow, flowPc, call, nextPkce, calls>>
amVars == <<mgrConfig, provider, initialized, store, inflight, amSteps, amLast>>
ofVars == <<tokenCall, hostAuth, fetchCall, redeemed, issued>>
csVars == <<credFile, csLast, box>>
vars == <<now, rlConfig, states, rlLast, winCalls, flow, flowPc, call, nextPkce, calls,
          mgrConfig, provider, initialized, store, inflight, amSteps, amLast, tokenCall,
          hostAuth, fetchCall, redeemed, issued, credFile, csLast, box>>

(***************************************************************************)
(* RateLimiter                                                             *)
(***************************************************************************)

\* an identifier with no entry in the `states` map
NoState == [present |-> FALSE, attempts |-> 0, windowStart |-> 0, lockedUntil |-> 0]

RateLimitConfigs ==
    [maxAttempts : 1..MaxCfgAttempts, windowMs : 1..MaxCfgWindowMs,
     lockoutMs : 1..MaxCfgLockoutMs, enabled : BOOLEAN]

\* `state.lockedUntil && now < state.lockedUntil`
isLockedOut_mutLE(st, t) == st.present /\ st.lockedUntil # 0 /\ t <= st.lockedUntil
isLockedOut(st, t) == st.present /\ st.lockedUntil # 0 /\ t < st.lockedUntil

\* `now - state.windowStart > this.config.windowMs`
windowExpired_mutGE(cfg, st, t) == t - st.windowStart >= cfg.windowMs
windowExpired(cfg, st, t) == t - st.windowStart > cfg.windowMs

\* `state.attempts > this.config.maxAttempts`
exceededLimit_mutGE(cfg, st) == st.attempts >= cfg.maxAttempts
exceededLimit(cfg, st) == st.attempts > cfg.maxAttempts

\* recordAttempt as a function of the entry it finds: the value returned and the entry left
recordAttemptOn(cfg, st, t) ==
    IF ~cfg.enabled THEN [ret |-> TRUE, st |-> st]
    ELSE IF isLockedOut(st, t) THEN [ret |-> FALSE, st |-> st]
    ELSE LET base == IF ~st.present \/ windowExpired(cfg, st, t)
                     THEN [present |-> TRUE, attempts |-> 0, windowStart |-> t, lockedUntil |-> 0]
                     ELSE st
             inc == [base EXCEPT !.attempts = @ + 1]
         IN  IF exceededLimit(cfg, inc)
             THEN [ret |-> FALSE, st |-> [inc EXCEPT !.lockedUntil = t + cfg.lockoutMs]]
             ELSE [ret |-> TRUE, st |-> inc]

\* isRateLimited as a function of the entry it finds (it deletes an expired entry)
isRateLimitedOn(cfg, st, t) ==
    IF ~cfg.enabled THEN [ret |-> FALSE, st |-> st]
    ELSE IF ~st.present THEN [ret |-> FALSE, st |-> st]
    ELSE IF isLockedOut(st, t) THEN [ret |-> TRUE, st |-> st]
    ELSE IF windowExpired(cfg, st, t) THEN [ret |-> FALSE, st |-> NoState]
    ELSE [ret |-> st.attempts >= cfg.maxAttempts, st |-> st]

\* Number.MAX_SAFE_INTEGER, written as the largest integer TLC represents: all that is
\* used of it is that it is no legal maxAttempts
MaxSafeInteger == 2147483647

getRemainingAttemptsOn(cfg, st, t) ==
    IF ~cfg.enabled THEN MaxSafeInteger
    ELSE IF ~st.present THEN cfg.maxAttempts
    ELSE IF isLockedOut(st, t) THEN 0
    ELSE IF windowExpired(cfg, st, t) THEN cfg.maxAttempts
    ELSE IF cfg.maxAttempts - st.attempts > 0 THEN cfg.maxAttempts - st.attempts ELSE 0

getLockoutRemainingOn(st, t) ==
    IF ~st.present \/ st.lockedUntil = 0 THEN 0
    ELSE IF st.lockedUntil - t > 0 THEN st.lockedUntil - t ELSE 0

\* the sweep's test for one entry
cleanupRemoves_mutNoLock(cfg, st, t) == st.present /\ t - st.windowStart > cfg.windowMs
cleanupRemoves(cfg, st, t) ==
    /\ st.present
    /\ t - st.windowStart > cfg.windowMs
    /\ (st.lockedUntil = 0 \/ t > st.lockedUntil)

cleanupOn(cfg, sts, t) ==
    [i \in DOMAIN sts |-> IF cleanupRemoves(cfg, sts[i], t) THEN NoState ELSE sts[i]]

\* The calls of the current window, counted from the calls themselves and not from the
\* limiter's entry: `start` is the time of the call that opened the window, `n` the
\* recordAttempt calls made in it (0: no window is open).  A call made
\* during a lockout is rejected before any counting and opens no window.
NoWindow == [start |-> 0, n |-> 0]

winCallsAfter(cfg, st, t, w) ==
    IF ~cfg.enabled \/ isLockedOut(st, t) THEN w
    ELSE IF w.n = 0 \/ t - w.start > cfg.windowMs THEN [start |-> t, n |-> 1]
    ELSE [w EXCEPT !.n = @ + 1]

\* what a call finds of the identifier's lockout
lockStatus(st, t) ==
    IF ~st.present \/ st.lockedUntil = 0 THEN "none"
    ELSE IF t < st.lockedUntil THEN "active" ELSE "elapsed"

NoCall == [op |-> "none", id |-> "default", ret |-> FALSE, lock |-> "none"]

\* the entry is looked up under the identifier: this.states.get(identifier)
recordAttempt_mutShared(id) ==
    LET r == recordAttemptOn(rlConfig, states[id], now) IN
    /\ states' = [i \in Identifiers |-> r.st]
    /\ rlLast' = [op |-> "recordAttempt", id |-> id, ret |-> r.ret, lock |-> lockStatus(states[id], now)]
    /\ winCalls' = [winCalls EXCEPT ![id] = winCallsAfter(rlConfig, states[id], now, @)]
    /\ UNCHANGED <<csVars, ofVars, now, rlConfig, dfVars, amVars>>
recordAttempt(id) ==
    LET r == recordAttemptOn(rlConfig, states[id], now) IN
    /\ states' = [states EXCEPT ![id] = r.st]
    /\ rlLast' = [op |-> "recordAttempt", id |-> id, ret |-> r.ret, lock |-> lockStatus(states[id], now)]
    /\ winCalls' = [winCalls EXCEPT ![id] = winCallsAfter(rlConfig, states[id], now, @)]
    /\ UNCHANGED <<csVars, ofVars, now, rlConfig, dfVars, amVars>>

isRateLimited(id) ==
    LET r == isRateLimitedOn(rlConfig, states[id], now) IN
    /\ states' = [states EXCEPT ![id] = r.st]
    /\ rlLast' = [op |-> "isRateLimited", id |-> id, ret |-> r.ret, lock |-> lockStatus(states[id], now)]
    /\ UNCHANGED <<csVars, ofVars, now, rlConfig, winCalls, dfVars, amVars>>

\* reset(identifier): this.states.delete(identifier)
resetOn_mutKeep(sts, id) == sts
resetOn(sts, id) == [sts EXCEPT ![id] = NoState]

reset(id) ==
    /\ states' = resetOn(states, id)
    /\ rlLast' = [op |-> "reset", id |-> id, ret |-> TRUE, lock |-> lockStatus(states[id], now)]
    /\ winCalls' = [winCalls EXCEPT ![id] = NoWindow]
    /\ UNCHANGED <<csVars, ofVars, now, rlConfig, dfVars, amVars>>

\* the setInterval callback; it may run between any two operations
cleanup ==
    /\ states' = cleanupOn(rlConfig, states, now)
    /\ states' # states
    /\ UNCHANGED <<csVars, ofVars, now, rlConfig, rlLast, winCalls, dfVars, amVars>>

Tick ==
    /\ now < MaxTime
    /\ now' = now + 1
    /\ UNCHANGED <<csVars, ofVars, rlVars, dfVars, amVars>>

(***************************************************************************)
(* QwenOAuthDeviceFlow                                                     *)
(*                                                                         *)
(* Durations are in quarter milliseconds.  A PKCE pair is a number; the    *)
(* server binds the device code it issues to the challenge of the request, *)
(* so the device code issued for pair v is written v, and a poll's         *)
(* device_code and code_verifier belong together exactly when equal.       *)
(* One call is in progress per object at a time (spec 4.1: "one in-flight  *)
(* HTTP call at a time per session"); cancel() may be called at any time.  *)
(***************************************************************************)
Ms(x) == 4 * x

DefaultPollIntervalMs == 2000
DefaultMaxPollAttempts == 150
MaxPollIntervalMs == 10000
TokenExpiresIn == 3600      \* expires_in of the token payload (seconds)

\* what the device-code endpoint may advertise
ServerIntervals == (0..MaxInterval) \cup {NearCapInterval, BigInterval}
ServerExpiresIn == 1..MaxExpiresIn
\* ... to each of two concurrent sessions
TwoSessionIntervals == {0, 1}
TwoSessionExpiresIn == {2}

\* the token payloads of the token endpoint
TokenPayloads == [access_token : {"at"}, refresh_token : {"rt", "absent"}, expires_in : {TokenExpiresIn}]
NoPayload == [access_token |-> "none", refresh_token |-> "absent", expires_in |-> 0]
NoCredentials == [accessToken |-> "none", refreshToken |-> "absent", expiresAt |-> 0]

\* a freshly constructed QwenOAuthDeviceFlow
NewFlow ==
    [deviceCode |-> 0, codeVerifier |-> 0, pollInterval |-> Ms(DefaultPollIntervalMs),
     maxPollAttempts |-> DefaultMaxPollAttempts, cancelled |-> FALSE]

NoCallYet ==
    [kind |-> "none", outcome |-> "none", attempt |-> 0, pollDeviceCode |-> 0, pollVerifier |-> 0,
     wakeAt |-> 0, credentials |-> NoCredentials, payload |-> NoPayload, doneAt |-> 0,
     polls |-> 0, sleeps |-> 0, pendings |-> 0, slowDowns |-> 0, slept |-> 0,
     interval0 |-> 0, cancelAt |-> 0, interval |-> 0, expires_in |-> 0]

\* Math.ceil(expires_in / (pollInterval / 1000)), pollInterval in quarter milliseconds
maxAttemptsFor(expiresIn, pollInterval) ==
    (expiresIn * Ms(1000) + pollInterval - 1) \div pollInterval

\* Math.min(pollInterval * 1.5, 10000)
slowDownInterval_mutDouble(p) == IF 2 * p < Ms(MaxPollIntervalMs) THEN 2 * p ELSE Ms(MaxPollIntervalMs)
slowDownInterval(p) ==
    IF 3 * p < 2 * Ms(MaxPollIntervalMs) THEN (3 * p) \div 2 ELSE Ms(MaxPollIntervalMs)

\* startAuthorization up to its fetch: clears the flag, stores a fresh verifier, sends its challenge
startAuthorization(s) ==
    /\ flowPc[s] = "idle"
    /\ calls' = calls + 1
    /\ flow' = [flow EXCEPT ![s].cancelled = FALSE, ![s].codeVerifier = nextPkce]
    /\ nextPkce' = nextPkce + 1
    /\ flowPc' = [flowPc EXCEPT ![s] = "starting"]
    /\ call' = [call EXCEPT ![s] = [NoCallYet EXCEPT !.kind = "start", !.pollVerifier = nextPkce]]
    /\ UNCHANGED <<csVars, ofVars, now, rlVars, amVars>>

\* the device-code endpoint answers 2xx: device code, optional interval, expires_in
startAuthorizationOk(s, interval, expiresIn) ==
    /\ flowPc[s] = "starting"
    /\ LET p == IF interval # 0 THEN Ms(interval * 1000) ELSE flow[s].pollInterval IN
       flow' = [flow EXCEPT ![s].deviceCode = call[s].pollVerifier,
                            ![s].pollInterval = p,
                            ![s].maxPollAttempts = maxAttemptsFor(expiresIn, p)]
    /\ flowPc' = [flowPc EXCEPT ![s] = "idle"]
    /\ call' = [call EXCEPT ![s].outcome = "started", ![s].interval = interval,
                            ![s].expires_in = expiresIn]
    /\ UNCHANGED <<csVars, ofVars, now, rlVars, amVars, nextPkce, calls>>

\* the device-code endpoint answers non-2xx (or the fetch fails): startAuthorization throws
startAuthorizationFail(s) ==
    /\ flowPc[s] = "starting"
    /\ flowPc' = [flowPc EXCEPT ![s] = "idle"]
    /\ call' = [call EXCEPT ![s].outcome = "startFailed"]
    /\ UNCHANGED <<csVars, ofVars, now, rlVars, amVars, flow, nextPkce, calls>>

\* the head of the poll loop for iteration `attempt`: the loop test, the cancelled test,
\* then the poll is sent.  Gives the new flowPc and call of the session.
loopHead_mutNoCancelTest(f, c, attempt) ==
    IF attempt >= f.maxPollAttempts
    THEN [pc |-> "idle", call |-> [c EXCEPT !.outcome = "timeout", !.attempt = attempt]]
    ELSE [pc |-> "polling",
          call |-> [c EXCEPT !.attempt = attempt, !.pollDeviceCode = f.deviceCode,
                             !.pollVerifier = f.codeVerifier, !.polls = @ + 1]]
loopHead_mutOneMore(f, c, attempt) ==
    IF attempt > f.maxPollAttempts
    THEN [pc |-> "idle", call |-> [c EXCEPT !.outcome = "timeout", !.attempt = attempt]]
    ELSE IF f.cancelled
    THEN [pc |-> "idle", call |-> [c EXCEPT !.outcome = "cancelled", !.attempt = attempt]]
    ELSE [pc |-> "polling",
          call |-> [c EXCEPT !.attempt = attempt, !.pollDeviceCode = f.deviceCode,
                             !.pollVerifier = f.codeVerifier, !.polls = @ + 1]]
loopHead(f, c, attempt) ==
    IF attempt >= f.maxPollAttempts
    THEN [pc |-> "idle", call |-> [c EXCEPT !.outcome = "timeout", !.attempt = attempt]]
    ELSE IF f.cancelled
    THEN [pc |-> "idle", call |-> [c EXCEPT !.outcome = "cancelled", !.attempt = attempt]]
    ELSE [pc |-> "polling",
          call |-> [c EXCEPT !.attempt = attempt, !.pollDeviceCode = f.deviceCode,
                             !.pollVerifier = f.codeVerifier, !.polls = @ + 1]]

\* waitForAuthorization is called: the started test, then the first loop head
waitForAuthorization(s) ==
    /\ flowPc[s] = "idle"
    /\ calls' = calls + 1
    /\ LET c0 == [NoCallYet EXCEPT !.kind = "wait", !.interval0 = flow[s].pollInterval,
                                    !.expires_in = IF call[s].kind = "start" /\ call[s].outcome = "started"
                                                   THEN call[s].expires_in ELSE 0]
           h == loopHead(flow[s], c0, 0)
       IN  IF flow[s].deviceCode = 0 \/ flow[s].codeVerifier = 0
           THEN /\ call' = [call EXCEPT ![s] = [c0 EXCEPT !.outcome = "notStarted"]]
                /\ UNCHANGED flowPc
           ELSE /\ call' = [call EXCEPT ![s] = h.call]
                /\ flowPc' = [flowPc EXCEPT ![s] = h.pc]
    /\ UNCHANGED <<csVars, ofVars, now, rlVars, amVars, flow, nextPkce>>

\* sleep(ms) begins
sleepFor_mutTwice(c, t, ms) == [c EXCEPT !.wakeAt = t + 2 * ms, !.sleeps = @ + 1, !.slept = @ + 2 * ms]
sleepFor(c, t, ms) == [c EXCEPT !.wakeAt = t + ms, !.sleeps = @ + 1, !.slept = @ + ms]

\* the token endpoint answers authorization_pending
pollPending(s) ==
    /\ flowPc[s] = "polling"
    /\ call' = [call EXCEPT ![s] = sleepFor([call[s] EXCEPT !.pendings = @ + 1], now, flow[s].pollInterval)]
    /\ flowPc' = [flowPc EXCEPT ![s] = "sleeping"]
    /\ UNCHANGED <<csVars, ofVars, now, rlVars, amVars, flow, nextPkce, calls>>

\* the token endpoint answers slow_down
pollSlowDown(s) ==
    /\ flowPc[s] = "polling"
    /\ LET p == slowDownInterval(flow[s].pollInterval) IN
       /\ flow' = [flow EXCEPT ![s].pollInterval = p]
       /\ call' = [call EXCEPT ![s] = sleepFor([call[s] EXCEPT !.slowDowns = @ + 1], now, p)]
    /\ flowPc' = [flowPc EXCEPT ![s] = "sleeping"]
    /\ UNCHANGED <<csVars, ofVars, now, rlVars, amVars, nextPkce, calls>>

\* the credentials waitForAuthorization builds from a token payload
credentialsOf_mutSeconds(payload, t) ==
    [accessToken |-> payload.access_token, refreshToken |-> payload.refresh_token,
     expiresAt |-> t + payload.expires_in]
credentialsOf(payload, t) ==
    [accessToken |-> payload.access_token, refreshToken |-> payload.refresh_token,
     expiresAt |-> t + Ms(payload.expires_in * 1000)]

\* the token endpoint answers 2xx with a token payload
pollToken(s, payload) ==
    /\ flowPc[s] = "polling"
    /\ call' = [call EXCEPT ![s].outcome = "credentials",
                            ![s].credentials = credentialsOf(payload, now),
                            ![s].payload = payload, ![s].doneAt = now]
    /\ flowPc' = [flowPc EXCEPT ![s] = "idle"]
    /\ UNCHANGED <<csVars, ofVars, now, rlVars, amVars, flow, nextPkce, calls>>

\* the token endpoint answers any other error, or the fetch fails: pollDeviceToken throws
pollError_mutRetry(s) ==
    /\ flowPc[s] = "polling"
    /\ call' = [call EXCEPT ![s] = sleepFor(flow[s], @, now)]
    /\ flowPc' = [flowPc EXCEPT ![s] = "sleeping"]
    /\ UNCHANGED <<csVars, ofVars, now, rlVars, amVars, flow, nextPkce, calls>>
pollError(s) ==
    /\ flowPc[s] = "polling"
    /\ call' = [call EXCEPT ![s].outcome = "error"]
    /\ flowPc' = [flowPc EXCEPT ![s] = "idle"]
    /\ UNCHANGED <<csVars, ofVars, now, rlVars, amVars, flow, nextPkce, calls>>

\* the sleep's timer fires: attempt++ and the next loop head
wake(s) ==
    /\ flowPc[s] = "sleeping"
    /\ \A o \in Sessions : flowPc[o] = "sleeping" => call[s].wakeAt <= call[o].wakeAt
    /\ now' = IF call[s].wakeAt > now THEN call[s].wakeAt ELSE now
    /\ LET h == loopHead(flow[s], call[s], call[s].attempt + 1) IN
       /\ call' = [call EXCEPT ![s] = h.call]
       /\ flowPc' = [flowPc EXCEPT ![s] = h.pc]
    /\ UNCHANGED <<csVars, ofVars, rlVars, amVars, flow, nextPkce, calls>>

\* cancel(); `cancelAt` notes a cancel made while a waitForAuthorization is in progress
cancel_mutShared(s) ==
    /\ ~flow[s].cancelled
    /\ flow' = [o \in Sessions |-> [flow[o] EXCEPT !.cancelled = TRUE]]
    /\ call' = [call EXCEPT ![s].cancelAt =
                    IF flowPc[s] \in {"polling", "sleeping"} /\ @ = 0 THEN now ELSE @]
    /\ UNCHANGED <<csVars, ofVars, now, rlVars, amVars, flowPc, nextPkce, calls>>
cancel(s) ==
    /\ ~flow[s].cancelled
    /\ flow' = [flow EXCEPT ![s].cancelled = TRUE]
    /\ call' = [call EXCEPT ![s].cancelAt =
                    IF flowPc[s] \in {"polling", "sleeping"} /\ @ = 0 THEN now ELSE @]
    /\ UNCHANGED <<csVars, ofVars, now, rlVars, amVars, flowPc, nextPkce, calls>>

\* no refreshAccessToken call made yet
NoTokenCall ==
    [pc |-> "idle", requests |-> 0, outcome |-> "none", refreshToken |-> "none",
     payload |-> NoPayload]

\* refreshAccessToken(refreshToken): the body is built and the one fetch is sent
refreshAccessToken(rt) ==
    /\ tokenCall.pc = "idle"
    /\ tokenCall' = [pc |-> "fetching", requests |-> 1, outcome |-> "none", refreshToken |-> rt,
                     payload |-> NoPayload]
    /\ calls' = calls + 1
    /\ UNCHANGED <<csVars, now, rlVars, amVars, flow, flowPc, call, nextPkce, hostAuth, fetchCall, redeemed, issued>>

\* the token endpoint answers 2xx: the payload is returned as it came
refreshAccessTokenOk(payload) ==
    /\ tokenCall.pc = "fetching"
    /\ tokenCall' = [tokenCall EXCEPT !.pc = "idle", !.outcome = "tokens", !.payload = payload]
    /\ UNCHANGED <<csVars, now, rlVars, amVars, dfVars, hostAuth, fetchCall, redeemed, issued>>

\* the answer is not ok, or the fetch fails: `throw new Error("Token refresh failed: ...")`
refreshAccessTokenFail ==
    /\ tokenCall.pc = "fetching"
    /\ tokenCall' = [tokenCall EXCEPT !.pc = "idle", !.outcome = "error"]
    /\ UNCHANGED <<csVars, now, rlVars, amVars, dfVars, hostAuth, fetchCall, redeemed, issued>>

(***************************************************************************)
(* AuthManager, its provider and the credential store                      *)
(*                                                                         *)
(* One AuthManager is live at a time (globalAuthManager); newAuthManager   *)
(* replaces it by a new instance built from the same loaded configuration. *)
(* Every instance shares the process-wide limiter (getGlobalRateLimiter)   *)
(* and the credentials file.  A token is a pair <<kind, serial>>; null and *)
(* undefined are NoToken.  authenticate() is split at its await of         *)
(* provider.authenticate(): several calls can be awaiting at once.  The    *)
(* provider object is replaced only while no call awaits it.               *)
(***************************************************************************)
\* authenticate() is called with its default identifier; how the limiter keeps identifiers
\* apart is the limiter's own subject
ManagerIdentifiers == {"default"}

Methods == {"api_key", "jwt", "oauth"}

RefreshBufferSeconds == 300
DefaultExpirationSeconds == 3600

\* security.rateLimit of the configurations explored: the shortest window and a lockout
\* that outlasts it, so that both end while the manager is live
AMRateLimitConfigs ==
    {c \in RateLimitConfigs : /\ c.windowMs = 1
                              /\ c.lockoutMs = MaxCfgWindowMs
                              /\ (c.enabled \/ c.maxAttempts = 1)}

\* credentialOk: the API key has at least 10 characters / the JWT private key loads
\* the configurations explored leave security.encryptionKey undefined (machine key)
ManagerConfigs ==
    {c \in [method : Methods, encryptCredentials : BOOLEAN, credentialOk : BOOLEAN,
            encryptionKey : {"machine"}, rateLimit : AMRateLimitConfigs] :
        c.method = "oauth" => c.credentialOk}

\* `let globalRateLimiter: RateLimiter | null = null`
NoLimiter == [maxAttempts |-> 0, windowMs |-> 0, lockoutMs |-> 0, enabled |-> FALSE]

\* getGlobalRateLimiter(config): the configuration of the limiter it returns
getGlobalRateLimiter(global, config) == IF global = NoLimiter THEN config ELSE global

NoToken == <<"none", 0>>
ApiKeyToken == <<"apiKey", 0>>

NoProvider ==
    [present |-> FALSE, authenticated |-> FALSE, accessToken |-> NoToken,
     refreshToken |-> NoToken, tokenExpiresAt |-> 0]
createProvider == [NoProvider EXCEPT !.present = TRUE]

\* what the authorization server answers to a code exchange or a refresh grant
NoResponse == [ok |-> FALSE, hasRefreshToken |-> FALSE, expiresIn |-> 0]
OAuthResponses ==
    {r \in [ok : {TRUE}, hasRefreshToken : BOOLEAN, expiresIn : {ShortExpiresIn, LongExpiresIn}] :
        r.expiresIn = ShortExpiresIn => r.hasRefreshToken}

setTokens(p, accessToken, refreshToken, expiresAt) ==
    [p EXCEPT !.accessToken = accessToken, !.refreshToken = refreshToken,
              !.tokenExpiresAt = expiresAt, !.authenticated = TRUE]

\* the plugin's staleness tests (plugin/auth.ts); NoExpires: `expires` is undefined
AccessTokenExpiryBufferMs == 300000
NoExpires == 0 - 1
accessTokenExpired(auth, t) ==
    \/ auth.access = NoToken
    \/ auth.expires = NoExpires
    \/ auth.expires <= t + AccessTokenExpiryBufferMs
tokenNeedsRefresh(expires, t) ==
    \/ expires = NoExpires
    \/ expires = 0
    \/ expires < t + AccessTokenExpiryBufferMs

isExpired(p, t) == t >= p.tokenExpiresAt
shouldRefresh(p, t) == t >= p.tokenExpiresAt - RefreshBufferSeconds * 1000

providerIsAuthenticated(cfg, p, t) ==
    IF cfg.method = "api_key" THEN p.authenticated
    ELSE p.authenticated /\ ~isExpired(p, t)

NoTokenInfo == [present |-> FALSE, token |-> NoToken, expiresAt |-> 0, refreshToken |-> NoToken]
getTokenInfo(cfg, p) ==
    IF cfg.method = "api_key"
    THEN IF ~p.authenticated THEN NoTokenInfo
         ELSE [present |-> TRUE, token |-> ApiKeyToken, expiresAt |-> MaxSafeInteger,
               refreshToken |-> NoToken]
    ELSE IF p.accessToken = NoToken THEN NoTokenInfo
         ELSE [present |-> TRUE, token |-> p.accessToken, expiresAt |-> p.tokenExpiresAt,
               refreshToken |-> p.refreshToken]

\* provider.authenticate().  threw: the promise is rejected instead of resolved
apiKeyAuthenticate(cfg, p) ==
    IF ~cfg.credentialOk THEN [success |-> FALSE, provider |-> p, threw |-> FALSE]
    ELSE [success |-> TRUE, provider |-> [p EXCEPT !.authenticated = TRUE], threw |-> FALSE]

\* JwtAuthProvider.generateToken: throws (ok = FALSE) when the key does not load
generateToken(cfg, p, t, serial) ==
    IF ~cfg.credentialOk THEN [ok |-> FALSE, provider |-> p]
    ELSE [ok |-> TRUE,
          provider |-> [p EXCEPT !.accessToken = <<"jwt", serial>>,
                                 !.tokenExpiresAt = ((t \div 1000) + DefaultExpirationSeconds) * 1000]]

\* the try block around generateToken, whose catch returns the failure
jwtAuthenticate_mutNoCatch(cfg, p, t, serial) ==
    LET g == generateToken(cfg, p, t, serial)
    IN  IF g.ok THEN [success |-> TRUE, provider |-> [g.provider EXCEPT !.authenticated = TRUE],
                      threw |-> FALSE]
        ELSE [success |-> FALSE, provider |-> p, threw |-> TRUE]
jwtAuthenticate(cfg, p, t, serial) ==
    LET g == generateToken(cfg, p, t, serial)
    IN  IF g.ok THEN [success |-> TRUE, provider |-> [g.provider EXCEPT !.authenticated = TRUE],
                      threw |-> FALSE]
        ELSE [success |-> FALSE, provider |-> p, threw |-> FALSE]

\* the callback server or the code exchange throws (resp.ok = FALSE) inside the try block
oauthAuthenticate(p, resp, t, serial) ==
    IF ~resp.ok THEN [success |-> FALSE, provider |-> p, threw |-> FALSE]
    ELSE [success |-> TRUE, threw |-> FALSE,
          provider |-> [p EXCEPT !.accessToken = <<"at", serial>>,
                                 !.refreshToken = IF resp.hasRefreshToken THEN <<"rt", serial>> ELSE NoToken,
                                 !.tokenExpiresAt = t + resp.expiresIn * 1000,
                                 !.authenticated = TRUE]]

\* provider.refresh()
providerRefresh_mutStaysAuthenticated(cfg, p, resp, t, serial) ==
    CASE cfg.method = "api_key" -> [success |-> p.authenticated, provider |-> p]
      [] cfg.method = "jwt" ->
            LET g == generateToken(cfg, p, t, serial)
            IN  IF g.ok THEN [success |-> TRUE, provider |-> g.provider]
                ELSE [success |-> FALSE, provider |-> [p EXCEPT !.authenticated = FALSE]]
      [] cfg.method = "oauth" ->
            IF p.refreshToken = NoToken \/ ~resp.ok
            THEN [success |-> FALSE, provider |-> p]
            ELSE [success |-> TRUE,
                  provider |-> [p EXCEPT !.accessToken = <<"at", serial>>,
                                         !.refreshToken = IF resp.hasRefreshToken THEN <<"rt", serial>> ELSE @,
                                         !.tokenExpiresAt = t + resp.expiresIn * 1000]]
providerRefresh(cfg, p, resp, t, serial) ==
    CASE cfg.method = "api_key" -> [success |-> p.authenticated, provider |-> p]
      [] cfg.method = "jwt" ->
            LET g == generateToken(cfg, p, t, serial)
            IN  IF g.ok THEN [success |-> TRUE, provider |-> g.provider]
                ELSE [success |-> FALSE, provider |-> [p EXCEPT !.authenticated = FALSE]]
      [] cfg.method = "oauth" ->
            IF p.refreshToken = NoToken \/ ~resp.ok
            THEN [success |-> FALSE, provider |-> [p EXCEPT !.authenticated = FALSE]]
            ELSE [success |-> TRUE,
                  provider |-> [p EXCEPT !.accessToken = <<"at", serial>>,
                                         !.refreshToken = IF resp.hasRefreshToken THEN <<"rt", serial>> ELSE @,
                                         !.tokenExpiresAt = t + resp.expiresIn * 1000]]

\* provider.getToken(); authCalled: it went through the provider's authenticate()
providerGetToken(cfg, p, resp, t, serial) ==
    IF cfg.method = "api_key"
    THEN IF p.authenticated THEN [ret |-> ApiKeyToken, provider |-> p, authCalled |-> FALSE]
         ELSE LET a == apiKeyAuthenticate(cfg, p)
              IN  [ret |-> IF a.success THEN ApiKeyToken ELSE NoToken,
                   provider |-> a.provider, authCalled |-> TRUE]
    ELSE IF shouldRefresh(p, t)
         THEN LET r == providerRefresh(cfg, p, resp, t, serial)
              IN  [ret |-> IF r.success THEN r.provider.accessToken ELSE NoToken,
                   provider |-> r.provider, authCalled |-> FALSE]
         ELSE [ret |-> p.accessToken, provider |-> p, authCalled |-> FALSE]

providerRevoke_mutKeepsState(cfg, p) == p
providerRevoke(cfg, p) ==
    IF cfg.method = "api_key" THEN [p EXCEPT !.authenticated = FALSE]
    ELSE [p EXCEPT !.accessToken = NoToken, !.refreshToken = NoToken,
                   !.tokenExpiresAt = 0, !.authenticated = FALSE]

\* the credentials file.  key: the password the content was encrypted under
\* (encryptionKey, or the machine key when it is undefined)
NoStored == [kind |-> "none", token |-> NoToken, refreshToken |-> NoToken, expiresAt |-> 0]
NoFile ==
    [exists |-> FALSE, encrypted |-> FALSE, key |-> "none", credentials |-> NoStored,
     createdAt |-> 0, updatedAt |-> 0]

tokenInfoToStoredCredentials(info) ==
    [kind |-> "oauth", token |-> info.token, refreshToken |-> info.refreshToken,
     expiresAt |-> info.expiresAt]
apiKeyToStoredCredentials(apiKey) ==
    [kind |-> "apiKey", token |-> apiKey, refreshToken |-> NoToken, expiresAt |-> 0]

saveCredentialsOn(file, credentials, encrypt, key, t) ==
    [exists |-> TRUE, encrypted |-> encrypt, key |-> IF encrypt THEN key ELSE "none",
     credentials |-> credentials,
     createdAt |-> IF file.exists /\ file.createdAt # 0 THEN file.createdAt ELSE t,
     updatedAt |-> t]

\* a wrong key fails the GCM tag check; loadCredentials catches and returns null
loadCredentialsOn(file, key) ==
    IF ~file.exists THEN NoStored
    ELSE IF file.encrypted /\ file.key # key THEN NoStored
    ELSE file.credentials

\* AuthManager.initialize(): nothing when already initialized; else a new provider,
\* rehydrated from the stored OAuth tokens if there are any
initializeOn(cfg, p, init, file) ==
    IF init THEN [provider |-> p, initialized |-> init]
    ELSE LET stored == loadCredentialsOn(file, cfg.encryptionKey)
         IN  [provider |-> IF cfg.method = "oauth" /\ stored.kind = "oauth"
                           THEN setTokens(createProvider, stored.token, stored.refreshToken,
                                          stored.expiresAt)
                           ELSE createProvider,
              initialized |-> TRUE]

\* "if (!this.provider) await this.initialize()"
ensureProvider(cfg, p, init, file) ==
    IF ~p.present THEN initializeOn(cfg, p, init, file)
    ELSE [provider |-> p, initialized |-> init]

\* Math.ceil(info.lockoutRemainingMs / 1000)
lockoutSeconds_mutFloor(ms) == ms \div 1000
lockoutSeconds(ms) == (ms + 999) \div 1000

NoAmCall ==
    [op |-> "none", id |-> "default", result |-> "none", seconds |-> 0,
     recordAttempt |-> "notCalled", providerAuthenticate |-> FALSE]

RECURSIVE sumOver(_, _)
sumOver(f, S) == IF S = {} THEN 0 ELSE LET x == CHOOSE y \in S : TRUE IN f[x] + sumOver(f, S \ {x})

\* the authenticate() calls that await their provider
awaiting == sumOver(inflight, Identifiers)

\* new AuthManager(config), config differing from the previous manager's in
\* security.rateLimit: this.rateLimiter = getGlobalRateLimiter(config.security?.rateLimit)
newAuthManager(rateLimit) ==
    /\ amSteps < MaxAmSteps
    /\ awaiting = 0
    /\ provider.present
    /\ amSteps' = amSteps + 1
    /\ mgrConfig' = [mgrConfig EXCEPT !.rateLimit = rateLimit]
    /\ rlConfig' = getGlobalRateLimiter(rlConfig, rateLimit)
    /\ provider' = NoProvider
    /\ initialized' = FALSE
    /\ amLast' = [NoAmCall EXCEPT !.op = "new"]
    /\ UNCHANGED <<csVars, ofVars, now, states, rlLast, winCalls, dfVars, store, inflight>>

initialize ==
    /\ amSteps < MaxAmSteps
    /\ awaiting = 0
    /\ ~initialized
    /\ LET m == initializeOn(mgrConfig, provider, initialized, store)
       IN  /\ provider' = m.provider
           /\ initialized' = m.initialized
    /\ amSteps' = amSteps + 1
    /\ amLast' = [NoAmCall EXCEPT !.op = "initialize"]
    /\ UNCHANGED <<csVars, ofVars, now, rlVars, dfVars, mgrConfig, store, inflight>>

\* AuthManager.authenticate(identifier) up to its return on rejection or its await of
\* provider.authenticate().  ApiKeyAuthProvider.authenticate has no await inside: it has
\* set its flag when the manager starts to wait
authenticate(id) ==
    /\ amSteps < MaxAmSteps
    /\ awaiting < MaxInFlight
    /\ amSteps' = amSteps + 1
    /\ LET m == ensureProvider(mgrConfig, provider, initialized, store)
           r == recordAttemptOn(rlConfig, states[id], now)
       IN  /\ initialized' = m.initialized
           /\ IF ~r.ret
              THEN LET info == isRateLimitedOn(rlConfig, r.st, now)
                   IN  /\ states' = [states EXCEPT ![id] = info.st]
                       /\ provider' = m.provider
                       /\ inflight' = inflight
                       /\ amLast' = [op |-> "authenticate", id |-> id, result |-> "rateLimited",
                                     seconds |-> lockoutSeconds(getLockoutRemainingOn(info.st, now)),
                                     recordAttempt |-> "false", providerAuthenticate |-> FALSE]
              ELSE /\ states' = [states EXCEPT ![id] = r.st]
                   /\ provider' = IF mgrConfig.method = "api_key"
                                  THEN apiKeyAuthenticate(mgrConfig, m.provider).provider
                                  ELSE m.provider
                   /\ inflight' = [inflight EXCEPT ![id] = @ + 1]
                   /\ amLast' = [op |-> "authenticate", id |-> id, result |-> "awaiting",
                                 seconds |-> 0, recordAttempt |-> "true",
                                 providerAuthenticate |-> TRUE]
    /\ UNCHANGED <<csVars, ofVars, now, rlConfig, rlLast, winCalls, dfVars, mgrConfig, store>>

\* what provider.authenticate() resolves to, and the provider it leaves
authenticateResult(cfg, p, resp, t, serial) ==
    CASE cfg.method = "api_key" -> [success |-> cfg.credentialOk, provider |-> p, threw |-> FALSE]
      [] cfg.method = "jwt" -> jwtAuthenticate(cfg, p, t, serial)
      [] cfg.method = "oauth" -> oauthAuthenticate(p, resp, t, serial)

\* the rest of AuthManager.authenticate: on success reset the limiter and save
savesOnSuccess(cfg, info) ==
    /\ cfg.encryptCredentials
    /\ info.present
    /\ cfg.method \in {"oauth", "api_key"}

authenticateDone(id, resp) ==
    /\ amSteps < MaxAmSteps
    /\ amSteps' = amSteps + 1
    /\ inflight[id] > 0
    /\ inflight' = [inflight EXCEPT ![id] = @ - 1]
    /\ LET res == authenticateResult(mgrConfig, provider, resp, now, amSteps)
           info == getTokenInfo(mgrConfig, res.provider)
       IN  /\ provider' = res.provider
           /\ states' = IF res.success THEN resetOn(states, id) ELSE states
           /\ store' = IF res.success /\ savesOnSuccess(mgrConfig, info)
                       THEN saveCredentialsOn(store,
                                IF mgrConfig.method = "oauth"
                                THEN tokenInfoToStoredCredentials(info)
                                ELSE apiKeyToStoredCredentials(ApiKeyToken),
                                TRUE, mgrConfig.encryptionKey, now)
                       ELSE store
           /\ amLast' = [op |-> "authenticateDone", id |-> id,
                         result |-> IF res.threw THEN "threw"
                                    ELSE IF res.success THEN "success" ELSE "failure",
                         seconds |-> 0, recordAttempt |-> "notCalled",
                         providerAuthenticate |-> FALSE]
    /\ UNCHANGED <<csVars, ofVars, now, rlConfig, rlLast, winCalls, dfVars, mgrConfig, initialized>>

getToken(resp) ==
    /\ amSteps < MaxAmSteps
    /\ amSteps' = amSteps + 1
    /\ LET m == ensureProvider(mgrConfig, provider, initialized, store)
           g == providerGetToken(mgrConfig, m.provider, resp, now, amSteps)
       IN  /\ provider' = g.provider
           /\ initialized' = m.initialized
           /\ amLast' = [op |-> "getToken", id |-> "default",
                         result |-> IF g.ret = NoToken THEN "null" ELSE "token",
                         seconds |-> 0, recordAttempt |-> "notCalled",
                         providerAuthenticate |-> g.authCalled]
    /\ UNCHANGED <<csVars, ofVars, now, rlVars, dfVars, mgrConfig, store, inflight>>

refresh(resp) ==
    /\ amSteps < MaxAmSteps
    /\ amSteps' = amSteps + 1
    /\ IF ~provider.present
       THEN /\ amLast' = [NoAmCall EXCEPT !.op = "refresh", !.result = "failure"]
            /\ UNCHANGED <<provider, store>>
       ELSE LET r == providerRefresh(mgrConfig, provider, resp, now, amSteps)
                info == getTokenInfo(mgrConfig, r.provider)
            IN  /\ provider' = r.provider
                /\ store' = IF r.success /\ info.present /\ mgrConfig.encryptCredentials
                            THEN saveCredentialsOn(store, tokenInfoToStoredCredentials(info),
                                                   TRUE, mgrConfig.encryptionKey, now)
                            ELSE store
                /\ amLast' = [NoAmCall EXCEPT !.op = "refresh",
                                !.result = IF r.success THEN "success" ELSE "failure"]
    /\ UNCHANGED <<csVars, ofVars, now, rlVars, dfVars, mgrConfig, initialized, inflight>>

revoke ==
    /\ amSteps < MaxAmSteps
    /\ amSteps' = amSteps + 1
    /\ provider' = IF provider.present THEN providerRevoke(mgrConfig, provider) ELSE provider
    /\ initialized' = FALSE
    /\ amLast' = [NoAmCall EXCEPT !.op = "revoke"]
    /\ UNCHANGED <<csVars, ofVars, now, rlVars, dfVars, mgrConfig, store, inflight>>

\* the limiter's periodic sweep and the clock, while a manager is live
sweep ==
    /\ states' = cleanupOn(rlConfig, states, now)
    /\ states' # states
    /\ UNCHANGED <<csVars, ofVars, now, rlConfig, rlLast, winCalls, dfVars, amVars>>

elapse ==
    /\ now < MaxAmTime
    /\ now' = now + 1
    /\ UNCHANGED <<csVars, ofVars, rlVars, dfVars, amVars>>

(***************************************************************************)
(* The plugin's oauthFetch wrapper over the host's stored credential, and  *)
(* an OAuthAuthProvider object used on its own                             *)
(***************************************************************************)

FetchCalls == {1, 2}

\* the auth details getAuth() returns
ApiAuth == [type |-> "api", access |-> NoToken, refresh |-> NoToken, expires |-> NoExpires]
InitialAuths ==
    {ApiAuth} \cup
    [type : {"oauth"}, access : {<<"at", 0>>}, refresh : {<<"rt", 0>>, NoToken},
     expires : {1 + ShortExpiresIn * 1000, 1 + LongExpiresIn * 1000}]

\* fresh: the access token the call's own refresh returned
NoFetch == [pc |-> "idle", outcome |-> "none", auth |-> ApiAuth, stale |-> FALSE,
            fresh |-> NoToken, sent |-> NoToken, sentAt |-> 0]

InitOAuth ==
    /\ tokenCall = NoTokenCall
    /\ hostAuth = ApiAuth
    /\ fetchCall = [c \in FetchCalls |-> NoFetch]
    /\ redeemed = << >>
    /\ issued = 0

\* the wrapper and the provider object share no state: a behaviour exercises one of the two
wrapperUnused == hostAuth = ApiAuth /\ redeemed = << >> /\ fetchCall = [c \in FetchCalls |-> NoFetch]
providerUnused == provider = createProvider

\* calculateExpiresAt(expiresInSeconds)
calculateExpiresAt(expiresIn, t) == t + expiresIn * 1000

\* the credential oauthFetch builds from the refresh response
newAuth_mutKeepsAccess(auth, resp, t, serial) ==
    [type |-> "oauth",
     refresh |-> IF resp.hasRefreshToken THEN <<"rt", serial>> ELSE auth.refresh,
     access |-> auth.access,
     expires |-> calculateExpiresAt(resp.expiresIn, t)]
newAuth(auth, resp, t, serial) ==
    [type |-> "oauth",
     refresh |-> IF resp.hasRefreshToken THEN <<"rt", serial>> ELSE auth.refresh,
     access |-> <<"at", serial>>,
     expires |-> calculateExpiresAt(resp.expiresIn, t)]

\* the downstream request leaves with the headers built from `auth`
sendRequest(fc, auth, t) ==
    [fc EXCEPT !.pc = "requesting", !.auth = auth,
               !.sent = IF auth.type = "oauth" THEN auth.access ELSE NoToken, !.sentAt = t]

\* oauthFetch is called: getAuth(), the staleness test, and the first request it sends
oauthFetch(c) ==
    /\ fetchCall[c].pc = "idle"
    /\ issued < MaxIssued
    /\ providerUnused
    /\ issued' = issued + 1
    /\ LET fc == [NoFetch EXCEPT !.auth = hostAuth] IN
       IF hostAuth.type # "oauth"
       THEN /\ fetchCall' = [fetchCall EXCEPT ![c] = sendRequest(fc, hostAuth, now)]
            /\ UNCHANGED redeemed
       ELSE IF accessTokenExpired(hostAuth, now) /\ hostAuth.refresh # NoToken
       THEN /\ fetchCall' = [fetchCall EXCEPT ![c] = [fc EXCEPT !.pc = "refreshing", !.stale = TRUE]]
            /\ redeemed' = Append(redeemed, hostAuth.refresh)
       ELSE /\ fetchCall' = [fetchCall EXCEPT ![c] =
                    [sendRequest(fc, hostAuth, now) EXCEPT !.stale = accessTokenExpired(hostAuth, now)]]
            /\ UNCHANGED redeemed
    /\ UNCHANGED <<csVars, now, rlVars, dfVars, amVars, tokenCall, hostAuth>>

\* refreshAccessToken returns the tokens: newAuth is built and handed to client.auth.set
refreshReturned(c, resp) ==
    /\ fetchCall[c].pc = "refreshing"
    /\ resp.ok
    /\ hostAuth' = newAuth(fetchCall[c].auth, resp, now, issued)
    /\ issued' = issued + 1
    /\ fetchCall' = [fetchCall EXCEPT ![c].pc = "reading", ![c].fresh = <<"at", issued>>]
    /\ UNCHANGED <<csVars, now, rlVars, dfVars, amVars, tokenCall, redeemed>>

\* refreshAccessToken (or client.auth.set) throws: the catch rethrows the re-authenticate error
refreshThrew(c) ==
    /\ fetchCall[c].pc = "refreshing"
    /\ fetchCall' = [fetchCall EXCEPT ![c].pc = "idle", ![c].outcome = "refreshFailed"]
    /\ UNCHANGED <<csVars, now, rlVars, dfVars, amVars, tokenCall, hostAuth, redeemed, issued>>

\* `currentAuth = await getAuth()` after the set, then the downstream request
readBack(c) ==
    /\ fetchCall[c].pc = "reading"
    /\ fetchCall' = [fetchCall EXCEPT ![c] = sendRequest(@, hostAuth, now)]
    /\ UNCHANGED <<csVars, now, rlVars, dfVars, amVars, tokenCall, hostAuth, redeemed, issued>>

\* the downstream request is answered and oauthFetch returns the response
responded(c) ==
    /\ fetchCall[c].pc = "requesting"
    /\ fetchCall' = [fetchCall EXCEPT ![c].pc = "idle", ![c].outcome = "response"]
    /\ UNCHANGED <<csVars, now, rlVars, dfVars, amVars, tokenCall, hostAuth, redeemed, issued>>

\* the host stores a credential of its own accord (a login)
login(auth) ==
    /\ hostAuth = ApiAuth
    /\ providerUnused
    /\ auth.type = "oauth"
    /\ hostAuth' = auth
    /\ UNCHANGED <<csVars, now, rlVars, dfVars, amVars, tokenCall, fetchCall, redeemed, issued>>

\* OAuthAuthProvider.setTokens with tokens from an external source
oauthSetTokens(resp) ==
    /\ issued < MaxIssued
    /\ wrapperUnused
    /\ resp.ok
    /\ issued' = issued + 1
    /\ provider' = setTokens(provider, <<"at", issued>>,
                             IF resp.hasRefreshToken THEN <<"rt", issued>> ELSE NoToken,
                             calculateExpiresAt(resp.expiresIn, now))
    /\ UNCHANGED <<csVars, now, rlVars, dfVars, mgrConfig, initialized, store, inflight, amSteps, amLast,
                   tokenCall, hostAuth, fetchCall, redeemed>>

\* OAuthAuthProvider.refresh(), the answer of the token endpoint included
oauthRefresh(resp) ==
    /\ issued < MaxIssued
    /\ wrapperUnused
    /\ issued' = issued + 1
    /\ LET r == providerRefresh(mgrConfig, provider, resp, now, issued) IN
       /\ provider' = r.provider
       /\ amLast' = [NoAmCall EXCEPT !.op = "refresh",
                        !.result = IF r.success THEN "success" ELSE "failure"]
    /\ UNCHANGED <<csVars, now, rlVars, dfVars, mgrConfig, initialized, store, inflight, amSteps,
                   tokenCall, hostAuth, fetchCall, redeemed>>

\* a minute passes
elapseMinute ==
    /\ now < 1 + MaxOfMinutes * 60000
    /\ now' = now + 60000
    /\ UNCHANGED <<csVars, rlVars, dfVars, amVars, ofVars>>

(***************************************************************************)
(* Encryption (encrypt / decrypt) and the credentials file                 *)
(* (loadCredentials / saveCredentials / deleteCredentials)                 *)
(***************************************************************************)

\* a JS string is a sequence of UTF-16 code units: "a" a letter, "hi" / "lo" a high / low
\* surrogate; in UTF-8 a pair is one 4-byte character and a lone surrogate becomes U+FFFD
CodeUnits == {"a", "hi", "lo"}
Strings == UNION {[1..n -> CodeUnits] : n \in 0..MaxLen}

\* Buffer.from(s, "utf8"), cipher.update(s, "utf8"), writeFileSync(path, s)
RECURSIVE utf8Encode(_)
utf8Encode(s) ==
    IF s = << >> THEN << >>
    ELSE IF Len(s) >= 2 /\ s[1] = "hi" /\ s[2] = "lo"
         THEN <<"astral">> \o utf8Encode(SubSeq(s, 3, Len(s)))
    ELSE IF s[1] \in {"hi", "lo"} THEN <<"fffd">> \o utf8Encode(Tail(s))
    ELSE <<s[1]>> \o utf8Encode(Tail(s))

\* buffer.toString("utf8"), readFileSync(path, "utf-8")
RECURSIVE utf8Decode(_)
utf8Decode(b) ==
    IF b = << >> THEN << >>
    ELSE (IF b[1] = "astral" THEN <<"hi", "lo">> ELSE <<b[1]>>) \o utf8Decode(Tail(b))

\* JSON.stringify of a string, its quotes left out: a lone surrogate is written as an escape
RECURSIVE quote(_)
quote_mutRaw(s) == s
quote(s) ==
    IF s = << >> THEN << >>
    ELSE IF Len(s) >= 2 /\ s[1] = "hi" /\ s[2] = "lo"
         THEN <<"hi", "lo">> \o quote(SubSeq(s, 3, Len(s)))
    ELSE IF s[1] = "hi" THEN <<"\\hi">> \o quote(Tail(s))
    ELSE IF s[1] = "lo" THEN <<"\\lo">> \o quote(Tail(s))
    ELSE <<s[1]>> \o quote(Tail(s))

\* JSON.parse of the inside of a string literal
RECURSIVE unquote(_)
unquote(t) ==
    IF t = << >> THEN << >>
    ELSE (IF t[1] = "\\hi" THEN <<"hi">> ELSE IF t[1] = "\\lo" THEN <<"lo">> ELSE <<t[1]>>)
         \o unquote(Tail(t))

Numerals == <<"0", "1", "2", "3", "4", "5", "6", "7", "8", "9">>
numeral(n) == Numerals[n + 1]
isNumeral(u) == \E i \in 1..Len(Numerals) : Numerals[i] = u
number(u) == (CHOOSE i \in 1..Len(Numerals) : Numerals[i] = u) - 1

\* StoredCredentials: an API key, updatedAt, version
NoCredential == [apiKey |-> << >>, updatedAt |-> 0, version |-> 0]
ApiKeys == {<<"a">>, <<"hi">>, <<"hi", "lo">>}
Credentials == [apiKey : ApiKeys, updatedAt : {0}, version : {0, 1}]

\* JSON.stringify(credentials) as a text: { apiKey " updatedAt , version }
stringify(c) ==
    <<"{">> \o quote(c.apiKey) \o <<"\"", numeral(c.updatedAt), ",", numeral(c.version), "}">>

\* JSON.parse of such a text: throws (ok = FALSE) on any other text
parseCredentials(t) ==
    LET n == Len(t) IN
    IF /\ n >= 5 /\ t[1] = "{" /\ t[n] = "}" /\ t[n - 4] = "\""
       /\ isNumeral(t[n - 3]) /\ t[n - 2] = "," /\ isNumeral(t[n - 1])
    THEN [ok |-> TRUE,
          value |-> [apiKey |-> unquote(SubSeq(t, 2, n - 5)), updatedAt |-> number(t[n - 3]),
                     version |-> number(t[n - 1])]]
    ELSE [ok |-> FALSE, value |-> NoCredential]

\* the passwords a caller can pass; MachineKey: what generateMachineKey() returns
Passwords == {"undefined", "", "k1"}
MachineKey == "machine"

\* `password || generateMachineKey()`
effectiveKey_mutLiteral(password) == password
effectiveKey(password) == IF password \in {"undefined", ""} THEN MachineKey ELSE password

\* scryptSync(password, salt, 32): no two (password, salt) pairs give one key
deriveKey(key, salt) == <<key, salt>>

\* AES-256-GCM: the ciphertext of `bytes` under (key, iv), and the tag over that ciphertext
seal(dk, iv, bytes) == [sealed |-> bytes, dk |-> dk, iv |-> iv]
tagOf(dk, iv, data) == [dk |-> dk, iv |-> iv, data |-> data]

NoEnvelope ==
    [data |-> seal(<<"none", 0>>, 0, << >>), iv |-> 0,
     authTag |-> tagOf(<<"none", 0>>, 0, seal(<<"none", 0>>, 0, << >>)), salt |-> 0, version |-> 0]

\* encrypt(plaintext, password); salt and iv are the randomBytes drawn
encrypt(plaintext, password, salt, iv) ==
    LET dk == deriveKey(effectiveKey(password), salt)
        data == seal(dk, iv, utf8Encode(plaintext))
    IN  [data |-> data, iv |-> iv, authTag |-> tagOf(dk, iv, data), salt |-> salt, version |-> 1]

\* decrypt(encryptedData, password): throws on another version and when final() rejects the tag
decrypt_mutAnyVersion(env, password) ==
    LET dk == deriveKey(effectiveKey(password), env.salt) IN
    IF env.authTag # tagOf(dk, env.iv, env.data) THEN [threw |-> TRUE, text |-> << >>]
    ELSE [threw |-> FALSE, text |-> utf8Decode(env.data.sealed)]
decrypt(env, password) ==
    IF env.version # 1 THEN [threw |-> TRUE, text |-> << >>]
    ELSE LET dk == deriveKey(effectiveKey(password), env.salt) IN
         IF env.authTag # tagOf(dk, env.iv, env.data) THEN [threw |-> TRUE, text |-> << >>]
         ELSE [threw |-> FALSE, text |-> utf8Decode(env.data.sealed)]

encryptObject(obj, password, salt, iv) == encrypt(stringify(obj), password, salt, iv)
decryptObject(env, password) ==
    LET d == decrypt(env, password)
        p == parseCredentials(d.text)
    IN  IF d.threw \/ ~p.ok THEN [threw |-> TRUE, value |-> NoCredential]
        ELSE [threw |-> FALSE, value |-> p.value]

\* the credentials file.  kind: absent, unreadable (readFileSync throws), garbage (not JSON),
\* null (the JSON text `null`), tombstone ({deleted: true}), storage (a StorageFile);
\* form: what its `credentials` member is (none, plain, envelope); bytes: the plain member
AbsentFile ==
    [kind |-> "absent", form |-> "none", bytes |-> << >>, envelope |-> NoEnvelope,
     hasMetadata |-> FALSE, createdAt |-> 0, updatedAt |-> 0, encrypted |-> FALSE]
damagedFile(kind) == [AbsentFile EXCEPT !.kind = kind]

\* `credentials.version = credentials.version || 1` and the updatedAt stamp
stamped(c, t) == [c EXCEPT !.updatedAt = t, !.version = IF c.version = 0 THEN 1 ELSE c.version]

\* what the existing file gives for createdAt; the read and the parse are outside any try
priorCreatedAt_mutNow(file, t) ==
    CASE file.kind = "absent" -> [threw |-> FALSE, createdAt |-> t]
      [] file.kind \in {"unreadable", "garbage", "null"} -> [threw |-> TRUE, createdAt |-> 0]
      [] OTHER -> [threw |-> FALSE, createdAt |-> t]
priorCreatedAt(file, t) ==
    CASE file.kind = "absent" -> [threw |-> FALSE, createdAt |-> t]
      [] file.kind \in {"unreadable", "garbage", "null"} -> [threw |-> TRUE, createdAt |-> 0]
      [] OTHER -> [threw |-> FALSE,
                   createdAt |-> IF file.hasMetadata /\ file.createdAt # 0 THEN file.createdAt ELSE t]

\* saveCredentials(credentials, encrypt, encryptionKey) on a file: whether it threw, the file left
saveCredentialsTo(file, c, enc, password, t, salt, iv) ==
    LET c1 == stamped(c, t)
        prior == priorCreatedAt(file, t)
    IN  IF prior.threw THEN [threw |-> TRUE, file |-> file]
        ELSE [threw |-> FALSE,
              file |-> [kind |-> "storage",
                        form |-> IF enc THEN "envelope" ELSE "plain",
                        bytes |-> IF enc THEN << >> ELSE utf8Encode(stringify(c1)),
                        envelope |-> IF enc THEN encryptObject(c1, password, salt, iv) ELSE NoEnvelope,
                        hasMetadata |-> TRUE, createdAt |-> prior.createdAt, updatedAt |-> t,
                        encrypted |-> enc]]

\* the try block of loadCredentials: whether it threw, whether it returned null, the credential
\* returned; raw: the value returned is the envelope itself, cast to StoredCredentials
NoLoad == [threw |-> FALSE, null |-> TRUE, raw |-> FALSE, value |-> NoCredential]
loadBody(file, password) ==
    CASE file.kind \in {"unreadable", "garbage", "null"} -> [NoLoad EXCEPT !.threw = TRUE]
      [] file.kind = "tombstone" -> NoLoad
      [] file.kind = "storage" ->
            IF file.form = "none" THEN NoLoad
            ELSE IF ~file.hasMetadata THEN [NoLoad EXCEPT !.threw = TRUE]
            ELSE IF file.encrypted /\ file.form = "envelope"
                 THEN LET d == decryptObject(file.envelope, password) IN
                      IF d.threw THEN [NoLoad EXCEPT !.threw = TRUE]
                      ELSE [NoLoad EXCEPT !.null = FALSE, !.value = d.value]
            ELSE IF file.form = "envelope" THEN [NoLoad EXCEPT !.null = FALSE, !.raw = TRUE]
            ELSE LET q == parseCredentials(utf8Decode(file.bytes)) IN
                 IF ~q.ok THEN [NoLoad EXCEPT !.threw = TRUE]
                 ELSE [NoLoad EXCEPT !.null = FALSE, !.value = q.value]
      [] OTHER -> NoLoad

\* loadCredentials(encryptionKey): the existsSync test, the try block, the catch that returns null
loadCredentialsFrom_mutNoCatch(file, password) ==
    IF file.kind = "absent" THEN NoLoad ELSE loadBody(file, password)
loadCredentialsFrom(file, password) ==
    IF file.kind = "absent" THEN NoLoad
    ELSE LET b == loadBody(file, password) IN IF b.threw THEN NoLoad ELSE b

NoStorageCall ==
    [op |-> "none", c |-> NoCredential, encrypt |-> FALSE, password |-> "undefined", at |-> 0,
     threw |-> FALSE, null |-> FALSE, raw |-> FALSE, value |-> NoCredential,
     found |-> "absent", firstSaveAt |-> 0, restarted |-> FALSE,
     saved |-> FALSE, savedWith |-> "undefined", savedAt |-> 0]

NoBox ==
    [made |-> FALSE, plaintext |-> << >>, password |-> "undefined", envelope |-> NoEnvelope,
     decrypted |-> FALSE, with |-> "undefined", threw |-> FALSE, text |-> << >>]

InitStorage ==
    /\ credFile = AbsentFile
    /\ csLast = NoStorageCall
    /\ box = NoBox

Salts == {1, 2}

\* the file calls and the bare encrypt / decrypt calls share no state: a behaviour makes one kind
storageUnused == credFile = AbsentFile /\ csLast = NoStorageCall /\ now = 1
boxUnused == box = NoBox

\* saveCredentials(c, encrypt, password).  firstSaveAt: the time of the first of the saves that
\* have overwritten one another since the file last was absent or not a storage file;
\* saved, savedWith, savedAt: the file is as this save wrote it, its password, its time
saveCredentials(c, enc, password) ==
    /\ boxUnused
    /\ \E salt \in Salts :
        LET r == saveCredentialsTo(credFile, c, enc, password, now, salt, salt) IN
        /\ credFile' = r.file
        /\ csLast' = [NoStorageCall EXCEPT !.op = "save", !.c = c, !.encrypt = enc,
                        !.password = password, !.at = now, !.threw = r.threw,
                        !.found = credFile.kind,
                        !.saved = ~r.threw, !.savedWith = password, !.savedAt = now,
                        !.firstSaveAt = IF r.threw THEN csLast.firstSaveAt
                                        ELSE IF credFile.kind = "storage" /\ csLast.firstSaveAt # 0
                                             THEN csLast.firstSaveAt ELSE now]
    /\ UNCHANGED <<now, rlVars, dfVars, amVars, ofVars, box>>

\* loadCredentials(password)
loadCredentials(password) ==
    /\ boxUnused
    /\ LET r == loadCredentialsFrom(credFile, password) IN
       csLast' = [csLast EXCEPT !.op = "load", !.password = password, !.at = now,
                     !.threw = r.threw, !.null = r.null, !.raw = r.raw, !.value = r.value,
                     !.found = credFile.kind]
    /\ UNCHANGED <<now, rlVars, dfVars, amVars, ofVars, credFile, box>>

\* deleteCredentials(): the tombstone is written, then the file is unlinked
deleteCredentials ==
    /\ boxUnused
    /\ credFile.kind # "absent"
    /\ credFile' = AbsentFile
    /\ csLast' = [NoStorageCall EXCEPT !.op = "delete", !.at = now, !.found = credFile.kind]
    /\ UNCHANGED <<now, rlVars, dfVars, amVars, ofVars, box>>

\* the file is changed from outside the program: made unreadable, overwritten with text that is
\* not JSON or with `null`, left as the tombstone of a deletion that stopped before its unlink
damage(kind) ==
    /\ boxUnused
    /\ credFile.kind # kind
    /\ credFile' = damagedFile(kind)
    /\ csLast' = [NoStorageCall EXCEPT !.op = "damage"]
    /\ UNCHANGED <<now, rlVars, dfVars, amVars, ofVars, box>>

\* ... or edited: its metadata removed, its encrypted flag cleared, its envelope's version raised
edit(what) ==
    /\ boxUnused
    /\ credFile.kind = "storage"
    /\ credFile' = CASE what = "metadata" -> [credFile EXCEPT !.hasMetadata = FALSE, !.createdAt = 0,
                                                              !.updatedAt = 0, !.encrypted = FALSE]
                     [] what = "flag" -> [credFile EXCEPT !.encrypted = FALSE]
                     [] OTHER -> [credFile EXCEPT !.envelope.version = 2]
    /\ credFile' # credFile
    /\ csLast' = [NoStorageCall EXCEPT !.op = "edit",
                    !.firstSaveAt = IF what = "metadata" THEN 0 ELSE csLast.firstSaveAt]
    /\ UNCHANGED <<now, rlVars, dfVars, amVars, ofVars, box>>

\* the process ends and a new one starts: the storage module keeps nothing in memory
restart ==
    /\ boxUnused
    /\ ~csLast.restarted
    /\ csLast.op = "save"
    /\ csLast' = [csLast EXCEPT !.restarted = TRUE]
    /\ UNCHANGED <<now, rlVars, dfVars, amVars, ofVars, credFile, box>>

\* encrypt(plaintext, password) called on its own
encryptCall(plaintext, password) ==
    /\ storageUnused
    /\ \E salt \in Salts :
        box' = [NoBox EXCEPT !.made = TRUE, !.plaintext = plaintext, !.password = password,
                             !.envelope = encrypt(plaintext, password, salt, salt)]
    /\ UNCHANGED <<now, rlVars, dfVars, amVars, ofVars, credFile, csLast>>

\* the envelope comes back with another version number
reversion(v) ==
    /\ storageUnused
    /\ box.made /\ ~box.decrypted
    /\ box.envelope.version # v
    /\ box' = [box EXCEPT !.envelope.version = v]
    /\ UNCHANGED <<now, rlVars, dfVars, amVars, ofVars, credFile, csLast>>

\* decrypt(envelope, password) called on its own
decryptCall(password) ==
    /\ storageUnused
    /\ box.made
    /\ LET d == decrypt(box.envelope, password) IN
       box' = [box EXCEPT !.decrypted = TRUE, !.with = password, !.threw = d.threw, !.text = d.text]
    /\ UNCHANGED <<now, rlVars, dfVars, amVars, ofVars, credFile, csLast>>

\* the clock of the storage calls
later ==
    /\ boxUnused
    /\ now < MaxCsTime
    /\ now' = now + 1
    /\ UNCHANGED <<rlVars, dfVars, amVars, ofVars, csVars>>

InitManager ==
    /\ provider = NoProvider
    /\ initialized = FALSE
    /\ store = NoFile
    /\ inflight = [i \in Identifiers |-> 0]
    /\ amSteps = 0
    /\ amLast = NoAmCall

InitFlows ==
    /\ flow = [s \in Sessions |-> NewFlow]
    /\ flowPc = [s \in Sessions |-> "idle"]
    /\ call = [s \in Sessions |-> NoCallYet]
    /\ nextPkce = 1
    /\ calls = 0

InitDF ==
    /\ now = 1
    /\ rlConfig = [maxAttempts |-> 1, windowMs |-> 1, lockoutMs |-> 1, enabled |-> TRUE]
    /\ states = [i \in Identifiers |-> NoState]
    /\ rlLast = NoCall
    /\ winCalls = [i \in Identifiers |-> NoWindow]
    /\ InitFlows
    /\ mgrConfig = [method |-> "api_key", encryptCredentials |-> TRUE, credentialOk |-> TRUE,
                    encryptionKey |-> "machine", rateLimit |-> rlConfig]
    /\ InitManager
    /\ InitOAuth
    /\ InitStorage

\* one QwenOAuthDeviceFlow object
NextDF ==
    \/ calls < MaxCalls /\ startAuthorization(1)
    \/ \E i \in ServerIntervals, e \in ServerExpiresIn : startAuthorizationOk(1, i, e)
    \/ startAuthorizationFail(1)
    \/ calls < MaxCalls /\ waitForAuthorization(1)
    \/ pollPending(1)
    \/ pollSlowDown(1)
    \/ \E p \in TokenPayloads : pollToken(1, p)
    \/ pollError(1)
    \/ wake(1)
    \/ cancel(1)

SpecDF == InitDF /\ [][NextDF]_vars

\* two QwenOAuthDeviceFlow objects used at the same time, each by a caller of its own
NextDF2 ==
    \/ \E s \in Sessions : calls < MaxSessionCalls /\ startAuthorization(s)
    \/ \E s \in Sessions, i \in TwoSessionIntervals, e \in TwoSessionExpiresIn :
            startAuthorizationOk(s, i, e)
    \/ \E s \in Sessions : startAuthorizationFail(s)
    \/ \E s \in Sessions : calls < MaxSessionCalls /\ waitForAuthorization(s)
    \/ \E s \in Sessions : pollPending(s)
    \/ \E s \in Sessions : pollSlowDown(s)
    \/ \E s \in Sessions, p \in TokenPayloads : pollToken(s, p)
    \/ \E s \in Sessions : pollError(s)
    \/ \E s \in Sessions : wake(s)
    \/ \E s \in Sessions : cancel(s)

SpecDF2 == InitDF /\ [][NextDF2]_vars

\* the same object when every poll sent is answered and every timer set fires
pollAnswered(s) ==
    \/ pollPending(s)
    \/ pollSlowDown(s)
    \/ \E p \in TokenPayloads : pollToken(s, p)
    \/ pollError(s)

\* ... over the first MaxLiveCalls calls made on the object
NextDFLive ==
    \/ calls < MaxLiveCalls /\ startAuthorization(1)
    \/ \E i \in ServerIntervals, e \in ServerExpiresIn : startAuthorizationOk(1, i, e)
    \/ startAuthorizationFail(1)
    \/ calls < MaxLiveCalls /\ waitForAuthorization(1)
    \/ pollAnswered(1)
    \/ wake(1)
    \/ cancel(1)
    \/ calls < MaxLiveCalls /\ \E rt \in {"rt"} : refreshAccessToken(rt)
    \/ \E p \in TokenPayloads : refreshAccessTokenOk(p)
    \/ refreshAccessTokenFail

SpecDFLive == InitDF /\ [][NextDFLive]_vars /\ WF_vars(pollAnswered(1)) /\ WF_vars(wake(1))

InitRL ==
    /\ now = 1
    /\ rlConfig \in RateLimitConfigs
    /\ states = [i \in Identifiers |-> NoState]
    /\ rlLast = NoCall
    /\ winCalls = [i \in Identifiers |-> NoWindow]
    /\ InitFlows
    /\ mgrConfig = [method |-> "api_key", encryptCredentials |-> TRUE, credentialOk |-> TRUE,
                    encryptionKey |-> "machine", rateLimit |-> rlConfig]
    /\ InitManager
    /\ InitOAuth
    /\ InitStorage

NextRL ==
    \/ \E id \in Identifiers : recordAttempt(id)
    \/ \E id \in Identifiers : isRateLimited(id)
    \/ \E id \in Identifiers : reset(id)
    \/ cleanup
    \/ Tick

SpecRL == InitRL /\ [][NextRL]_vars

\* a manager, its provider, the global limiter and the credentials file.  The first
\* manager of the process creates the limiter
InitAM ==
    /\ now = 1
    /\ mgrConfig \in ManagerConfigs
    /\ rlConfig = getGlobalRateLimiter(NoLimiter, mgrConfig.rateLimit)
    /\ states = [i \in Identifiers |-> NoState]
    /\ rlLast = NoCall
    /\ winCalls = [i \in Identifiers |-> NoWindow]
    /\ InitFlows
    /\ InitManager
    /\ InitOAuth
    /\ InitStorage

NextAM ==
    \/ \E rateLimit \in AMRateLimitConfigs : newAuthManager(rateLimit)
    \/ initialize
    \/ \E id \in ManagerIdentifiers : authenticate(id)
    \/ \E id \in ManagerIdentifiers, resp \in OAuthResponses \cup {NoResponse} : authenticateDone(id, resp)
    \/ \E resp \in OAuthResponses \cup {NoResponse} : getToken(resp)
    \/ \E resp \in OAuthResponses \cup {NoResponse} : refresh(resp)
    \/ revoke
    \/ sweep
    \/ elapse

SpecAM == InitAM /\ [][NextAM]_vars

InitOF ==
    /\ now = 1
    /\ rlConfig = [maxAttempts |-> 1, windowMs |-> 1, lockoutMs |-> 1, enabled |-> TRUE]
    /\ states = [i \in Identifiers |-> NoState]
    /\ rlLast = NoCall
    /\ winCalls = [i \in Identifiers |-> NoWindow]
    /\ InitFlows
    /\ mgrConfig = [method |-> "oauth", encryptCredentials |-> TRUE, credentialOk |-> TRUE,
                    encryptionKey |-> "machine", rateLimit |-> rlConfig]
    /\ provider = createProvider
    /\ initialized = TRUE
    /\ store = NoFile
    /\ inflight = [i \in Identifiers |-> 0]
    /\ amSteps = 0
    /\ amLast = NoAmCall
    /\ InitOAuth
    /\ InitStorage

\* oauthFetch calls over the host's credential, beside an OAuthAuthProvider object
NextOF ==
    \/ \E auth \in InitialAuths : login(auth)
    \/ \E c \in FetchCalls : oauthFetch(c)
    \/ \E c \in FetchCalls, resp \in OAuthResponses : refreshReturned(c, resp)
    \/ \E c \in FetchCalls : refreshThrew(c)
    \/ \E c \in FetchCalls : readBack(c)
    \/ \E c \in FetchCalls : responded(c)
    \/ \E resp \in OAuthResponses : oauthSetTokens(resp)
    \/ \E resp \in OAuthResponses \cup {NoResponse} : oauthRefresh(resp)
    \/ elapseMinute

SpecOF == InitOF /\ [][NextOF]_vars

InitCS ==
    /\ now = 1
    /\ rlConfig = [maxAttempts |-> 1, windowMs |-> 1, lockoutMs |-> 1, enabled |-> TRUE]
    /\ states = [i \in Identifiers |-> NoState]
    /\ rlLast = NoCall
    /\ winCalls = [i \in Identifiers |-> NoWindow]
    /\ InitFlows
    /\ mgrConfig = [method |-> "api_key", encryptCredentials |-> TRUE, credentialOk |-> TRUE,
                    encryptionKey |-> "machine", rateLimit |-> rlConfig]
    /\ InitManager
    /\ InitOAuth
    /\ InitStorage

\* the credentials file under saves, loads and deletions, and encrypt / decrypt on their own
NextCS ==
    \/ \E c \in Credentials, enc \in BOOLEAN, password \in Passwords : saveCredentials(c, enc, password)
    \/ \E password \in Passwords : loadCredentials(password)
    \/ deleteCredentials
    \/ \E kind \in {"unreadable", "garbage", "null", "tombstone"} : damage(kind)
    \/ \E what \in {"metadata", "flag", "version"} : edit(what)
    \/ restart
    \/ \E x \in Strings, password \in Passwords : encryptCall(x, password)
    \/ \E v \in {0, 1, 2} : reversion(v)
    \/ \E password \in Passwords : decryptCall(password)
    \/ later

SpecCS == InitCS /\ [][NextCS]_vars

(***************************************************************************)
(* Claims on the RateLimiter                                               *)
(***************************************************************************)

\* C2: for an enabled limiter with maxAttempts = N, the first N recordAttempt calls made
\* within one window return true, and the (N+1)-th call within that window returns false
\* and sets lockedUntil = now + lockoutMs.
C2_FirstNAllowedThenLockout ==
    [][\A id \in Identifiers :
        (rlConfig.enabled /\ ~isLockedOut(states[id], now) /\ recordAttempt(id)) =>
            /\ winCalls'[id].n <= rlConfig.maxAttempts => rlLast'.ret = TRUE
            /\ winCalls'[id].n = rlConfig.maxAttempts + 1 =>
                  /\ rlLast'.ret = FALSE
                  /\ states'[id].lockedUntil = now + rlConfig.lockoutMs]_vars

\* the (N+1)-th call of a window has just been rejected and has set the lockout, after
\* the N calls before it were counted
C2_Witness ==
    /\ rlConfig.enabled
    /\ rlConfig.maxAttempts = 2
    /\ rlLast = [op |-> "recordAttempt", id |-> "user1", ret |-> FALSE, lock |-> "none"]
    /\ winCalls["user1"].n = 3
    /\ states["user1"].lockedUntil = now + rlConfig.lockoutMs

\* C3: while now < lockedUntil for an identifier and reset is not called for it, every
\* recordAttempt returns false and leaves attempts, windowStart and lockedUntil unchanged,
\* isRateLimited is true, also after the window has expired and when the sweep runs.
C3_LockoutHolds ==
    [][\A id \in Identifiers :
        isLockedOut(states[id], now) =>
            /\ ~reset(id) => states'[id] = states[id]
            /\ recordAttempt(id) => rlLast'.ret = FALSE
            /\ isRateLimited(id) => rlLast'.ret = TRUE]_vars

\* a recordAttempt has just been rejected during a lockout whose window has expired
C3_Witness ==
    /\ rlLast = [op |-> "recordAttempt", id |-> "default", ret |-> FALSE, lock |-> "active"]
    /\ isLockedOut(states["default"], now)
    /\ windowExpired(rlConfig, states["default"], now)
    /\ states["default"].lockedUntil < now + rlConfig.lockoutMs

\* the lockout of an entry has run out
lockoutElapsed(st, t) == st.present /\ st.lockedUntil # 0 /\ t >= st.lockedUntil

\* C4 as stated: once lockoutMs has elapsed since the lockout, isRateLimited is false and
\* the next recordAttempt returns true as the first attempt of a new window, for every
\* positive maxAttempts, windowMs and lockoutMs.
C4_Original ==
    [][\A id \in Identifiers :
        lockoutElapsed(states[id], now) =>
            /\ isRateLimited(id) => rlLast'.ret = FALSE
            /\ recordAttempt(id) =>
                  /\ rlLast'.ret = TRUE
                  /\ states'[id].attempts = 1
                  /\ states'[id].windowStart = now]_vars

\* C4 as amended: the same, once more than windowMs has also passed since windowStart,
\* which is always so when lockoutMs > windowMs (the spec's example, 1000 and 5000, is
\* one); with lockoutMs <= windowMs the window may still be open when the lockout ends,
\* and the identifier is then still limited.
C4_ResetAfterLockout ==
    [][\A id \in Identifiers :
        (/\ lockoutElapsed(states[id], now)
         /\ rlConfig.lockoutMs > rlConfig.windowMs \/ now - states[id].windowStart > rlConfig.windowMs) =>
            /\ isRateLimited(id) => rlLast'.ret = FALSE
            /\ recordAttempt(id) =>
                  /\ rlLast'.ret = TRUE
                  /\ states'[id].attempts = 1
                  /\ states'[id].windowStart = now]_vars

\* at the very instant the lockout ends, a recordAttempt has been accepted as the first
\* attempt of a new window
C4_Witness ==
    /\ rlConfig.lockoutMs > rlConfig.windowMs
    /\ rlLast = [op |-> "recordAttempt", id |-> "default", ret |-> TRUE, lock |-> "elapsed"]
    /\ winCalls["default"] = [start |-> now, n |-> 1]
    /\ states["default"] = [present |-> TRUE, attempts |-> 1, windowStart |-> now, lockedUntil |-> 0]

(***************************************************************************)
(* Claims on QwenOAuthDeviceFlow                                           *)
(***************************************************************************)

\* a waitForAuthorization call of session s has ended
waitEnded(s) == call[s].kind = "wait" /\ flowPc[s] = "idle"

\* C1: if cancel() is called while waitForAuthorization() is in progress (during an
\* in-flight poll or during the sleep between polls), waitForAuthorization() rejects with
\* the cancellation error within one poll interval; after the cancel it neither returns
\* credentials nor fails with the timeout error.
C1_CancelRejectsWithCancelled ==
    \A s \in Sessions :
        (waitEnded(s) /\ call[s].cancelAt # 0) =>
            /\ call[s].outcome = "cancelled"
            /\ now - call[s].cancelAt <= flow[s].pollInterval

\* C9: if the token endpoint answers authorization_pending k times and then a token
\* payload, waitForAuthorization has sent exactly k+1 polls and slept exactly k times, for
\* the poll interval each, and returns the credentials of that payload with
\* expiresAt = now + expires_in * 1000.
C9_PendingThenToken ==
    \A s \in Sessions :
        (waitEnded(s) /\ call[s].outcome = "credentials" /\ call[s].slowDowns = 0) =>
            /\ call[s].polls = call[s].pendings + 1
            /\ call[s].sleeps = call[s].pendings
            /\ call[s].slept = call[s].pendings * call[s].interval0
            /\ flow[s].pollInterval = call[s].interval0
            /\ call[s].polls <= flow[s].maxPollAttempts
            /\ call[s].credentials.accessToken = call[s].payload.access_token
            /\ call[s].credentials.refreshToken = call[s].payload.refresh_token
            /\ call[s].credentials.expiresAt = call[s].doneAt + Ms(call[s].payload.expires_in * 1000)

\* two authorization_pending answers, then the token payload
C9_Witness ==
    /\ waitEnded(1)
    /\ call[1].outcome = "credentials"
    /\ call[1].pendings = 2
    /\ call[1].slowDowns = 0
    /\ call[1].polls = 3
    /\ call[1].slept = 2 * Ms(1000)
    /\ now = call[1].doneAt

\* C10: on each slow_down response the poll interval becomes min(previous x 1.5, 10000 ms),
\* the sleep that follows uses the new value, and so do all later sleeps of the wait
\* (nothing else changes the interval while the wait lasts); an authorization_pending
\* response leaves the interval unchanged and sleeps for it.
C10_SlowDownBackoff ==
    [][\A s \in Sessions :
        /\ pollSlowDown(s) =>
              /\ IF 3 * flow[s].pollInterval >= 2 * Ms(MaxPollIntervalMs)
                 THEN flow'[s].pollInterval = Ms(MaxPollIntervalMs)
                 ELSE 2 * flow'[s].pollInterval = 3 * flow[s].pollInterval
              /\ call'[s].wakeAt = now + flow'[s].pollInterval
              /\ call'[s].slept = call[s].slept + flow'[s].pollInterval
        /\ pollPending(s) =>
              /\ flow'[s].pollInterval = flow[s].pollInterval
              /\ call'[s].wakeAt = now + flow[s].pollInterval
              /\ call'[s].slept = call[s].slept + flow[s].pollInterval
        /\ (flowPc[s] \in {"polling", "sleeping"} /\ ~pollSlowDown(s)) =>
              flow'[s].pollInterval = flow[s].pollInterval]_vars

\* slow_down, authorization_pending, slow_down: the third sleep lasts 2.25 x the first interval
C10_Witness ==
    /\ flowPc[1] = "sleeping"
    /\ call[1].slowDowns = 2
    /\ call[1].pendings = 1
    /\ 4 * flow[1].pollInterval = 9 * call[1].interval0
    /\ call[1].wakeAt = now + flow[1].pollInterval

\* a slow_down has taken the interval from below the cap to the cap
C10_WitnessCapped ==
    /\ flowPc[1] = "sleeping"
    /\ call[1].slowDowns = 1
    /\ call[1].interval0 < Ms(MaxPollIntervalMs)
    /\ flow[1].pollInterval = Ms(MaxPollIntervalMs)

(***************************************************************************)
(* Claims on AuthManager (SpecAM)                                          *)
(***************************************************************************)
\* an authenticate(id) step that the limiter rejected
rejectedStep(id) == authenticate(id) /\ amLast'.result = "rateLimited"

\* the rejection carries the lockout that remains, in whole seconds rounded up
carriesLockout(id) ==
    LET remaining == states'[id].lockedUntil - now
    IN  /\ remaining > 0
        /\ amLast'.seconds * 1000 >= remaining
        /\ (amLast'.seconds - 1) * 1000 < remaining

\* C5 (as stated): an authenticate(identifier) rejected by the limiter returns a failure
\* carrying the remaining lockout time, does not invoke the provider's authenticate(),
\* and changes neither the provider state nor the credential store.
C5_Original ==
    [][\A id \in ManagerIdentifiers :
          rejectedStep(id) =>
              /\ carriesLockout(id)
              /\ ~amLast'.providerAuthenticate
              /\ inflight' = inflight
              /\ provider' = provider
              /\ store' = store]_vars

\* C5 (amended): a rejected authenticate(identifier) returns a failure carrying the
\* remaining lockout time, does not invoke the provider's authenticate() and leaves the
\* credential store alone; the provider state is unchanged when the manager has a
\* provider, and otherwise the call has created the provider before it consulted the
\* limiter, authenticated exactly when OAuth tokens were stored.
C5_RejectedByLimiter ==
    [][\A id \in ManagerIdentifiers :
          rejectedStep(id) =>
              /\ carriesLockout(id)
              /\ ~amLast'.providerAuthenticate
              /\ inflight' = inflight
              /\ store' = store
              /\ provider.present => provider' = provider
              /\ ~provider.present =>
                    /\ provider'.present
                    /\ initialized'
                    /\ provider'.authenticated <=>
                          /\ mgrConfig.method = "oauth"
                          /\ loadCredentialsOn(store, mgrConfig.encryptionKey).kind = "oauth"]_vars

\* a call rejected during a lockout that began earlier, while another call awaits the
\* provider that the rejected one left as it was
C5_Witness ==
    /\ amLast.op = "authenticate"
    /\ amLast.result = "rateLimited"
    /\ amLast.seconds = 1
    /\ isLockedOut(states["default"], now)
    /\ states["default"].lockedUntil - now < rlConfig.lockoutMs
    /\ provider.present
    /\ inflight["default"] = 1

\* C6: every invocation of the provider's authenticate() made by an AuthManager
\* operation follows a recordAttempt of that operation that returned true.
C6_ProviderAuthenticateGated ==
    amLast.providerAuthenticate => amLast.recordAttempt = "true"

\* an authenticate(id) call returning success
successStep(id) ==
    /\ \E resp \in OAuthResponses \cup {NoResponse} : authenticateDone(id, resp)
    /\ amLast'.result = "success"

\* C7 (as stated): after authenticate(identifier) returns success the identifier has no
\* rate-limit state, getRemainingAttempts equals maxAttempts and isRateLimited is false.
C7_Original ==
    [][\A id \in ManagerIdentifiers :
          successStep(id) =>
              /\ states'[id] = NoState
              /\ getRemainingAttemptsOn(rlConfig, states'[id], now) = rlConfig.maxAttempts
              /\ ~isRateLimitedOn(rlConfig, states'[id], now).ret]_vars

\* C7 (amended): after authenticate(identifier) returns success the identifier has no
\* rate-limit state and isRateLimited is false; getRemainingAttempts equals maxAttempts
\* when the limiter is enabled, and Number.MAX_SAFE_INTEGER when it is disabled.
C7_SuccessClearsLimiter ==
    [][\A id \in ManagerIdentifiers :
          successStep(id) =>
              /\ states'[id] = NoState
              /\ ~isRateLimitedOn(rlConfig, states'[id], now).ret
              /\ getRemainingAttemptsOn(rlConfig, states'[id], now) =
                    IF rlConfig.enabled THEN rlConfig.maxAttempts ELSE MaxSafeInteger]_vars

\* a success that wiped recorded attempts: two calls were counted, one has returned
\* success and the identifier's entry is gone while the other call still awaits
C7_Witness ==
    /\ amLast.op = "authenticateDone"
    /\ amLast.result = "success"
    /\ rlConfig.enabled
    /\ rlConfig.maxAttempts = MaxCfgAttempts
    /\ states["default"] = NoState
    /\ inflight["default"] = 1
    /\ provider.authenticated

\* C8: after authenticate() returns success the credential store holds the resulting
\* credential, for every method and every security setting: loadCredentials with the
\* manager's key returns it.
C8_SuccessIsPersisted ==
    [][\A id \in ManagerIdentifiers :
          successStep(id) =>
              LET stored == loadCredentialsOn(store', mgrConfig.encryptionKey)
              IN  /\ stored # NoStored
                  /\ mgrConfig.method = "api_key" =>
                        stored.kind = "apiKey" /\ stored.token = ApiKeyToken
                  /\ mgrConfig.method = "oauth" =>
                        stored.kind = "oauth" /\ stored.token = provider'.accessToken
                  /\ mgrConfig.method = "jwt" => stored.kind = "jwt"]_vars

(***************************************************************************)
(* Further claims on QwenOAuthDeviceFlow                                   *)
(***************************************************************************)
waitInProgress(s) == flowPc[s] \in {"polling", "sleeping"}

\* C11: waitForAuthorization always terminates; it never sends more than maxAttempts
\* polls; and when every poll was answered authorization_pending or slow_down and
\* cancel() was not called, it has sent exactly maxAttempts polls and failed with the
\* authorization-timeout error.
C11_WaitTerminates ==
    /\ [](\A s \in Sessions :
            call[s].kind = "wait" =>
                /\ call[s].polls <= flow[s].maxPollAttempts
                /\ (/\ waitEnded(s)
                    /\ call[s].outcome # "notStarted"
                    /\ ~flow[s].cancelled
                    /\ call[s].pendings + call[s].slowDowns = call[s].polls)
                   => /\ call[s].outcome = "timeout"
                      /\ call[s].polls = flow[s].maxPollAttempts)
    /\ \A s \in Sessions : waitInProgress(s) ~> waitEnded(s)

\* a wait that timed out after three polls, answered pending and slow_down
C11_Witness ==
    /\ waitEnded(1)
    /\ call[1].outcome = "timeout"
    /\ ~flow[1].cancelled
    /\ call[1].polls = 3
    /\ flow[1].maxPollAttempts = 3
    /\ call[1].pendings >= 1
    /\ call[1].slowDowns >= 1

\* C12: a token poll answered by an error other than authorization_pending and slow_down ends
\* the waitForAuthorization call at that step with the error: the call sleeps no more and the
\* failed poll is its last; a refreshAccessToken call sends one request, and a failed answer
\* ends it with the error without a second request
C12_ErrorEndsWithoutRetry ==
    [][/\ \A s \in Sessions :
            /\ pollError(s) =>
                /\ flowPc'[s] = "idle"
                /\ call'[s].outcome = "error"
                /\ call'[s].polls = call[s].polls
                /\ call'[s].sleeps = call[s].sleeps
                /\ now' = now
            /\ (flowPc'[s] = "idle" /\ call'[s].kind = "wait" /\ call'[s].outcome = "error") =>
                call'[s].polls = call'[s].pendings + call'[s].slowDowns + 1
       /\ refreshAccessTokenFail =>
            /\ tokenCall'.pc = "idle"
            /\ tokenCall'.outcome = "error"
            /\ tokenCall'.requests = 1
       /\ tokenCall'.requests <= 1
       /\ (tokenCall'.pc = "idle" /\ tokenCall'.outcome # "none") => tokenCall'.requests = 1]_vars

C12_Witness ==
    /\ flowPc[1] = "idle" /\ call[1].kind = "wait" /\ call[1].outcome = "error"
    /\ call[1].pendings >= 1 /\ call[1].polls = call[1].pendings + 1
    /\ ~flow[1].cancelled

C12_WitnessRefresh ==
    /\ tokenCall.pc = "idle" /\ tokenCall.outcome = "error" /\ tokenCall.requests = 1

\* C13: a waitForAuthorization call made when no call was made on the object before, or when the
\* call before it was a waitForAuthorization that has ended (in credentials, an error, the
\* timeout or the cancellation), fails with the not-started error and sends no token poll
C13_WaitNeedsLiveSession ==
    [][\A s \in Sessions :
            (waitForAuthorization(s) /\ call[s].kind \in {"none", "wait"}) =>
                /\ call'[s].outcome = "notStarted"
                /\ call'[s].polls = 0
                /\ flowPc'[s] = "idle"]_vars

\* the interval the device-code response asks for, 2000 ms when it names none
advertisedInterval(c) == IF c.interval # 0 THEN Ms(c.interval * 1000) ELSE Ms(DefaultPollIntervalMs)

\* a startAuthorization call has returned the authorization info and no call followed it
startSucceeded(s) == flowPc[s] = "idle" /\ call[s].kind = "start" /\ call[s].outcome = "started"

\* C14: after every successful startAuthorization, a repeated one included, pollInterval is the
\* advertised interval x 1000 (2000 ms when the response names none) and maxPollAttempts is
\* expires_in divided by that interval in seconds, rounded up
C14_IntervalAndAttemptsFromResponse ==
    \A s \in Sessions :
        startSucceeded(s) =>
            /\ flow[s].pollInterval = advertisedInterval(call[s])
            /\ flow[s].maxPollAttempts * advertisedInterval(call[s]) >= call[s].expires_in * Ms(1000)
            /\ (flow[s].maxPollAttempts - 1) * advertisedInterval(call[s]) < call[s].expires_in * Ms(1000)

\* C15: the time a waitForAuthorization call spends in its sleeps never exceeds the expires_in
\* of the startAuthorization response it follows, whatever interval was advertised and whatever
\* authorization_pending and slow_down answers it gets
C15_SleepWithinExpiresIn ==
    \A s \in Sessions :
        (call[s].kind = "wait" /\ call[s].expires_in # 0) =>
            call[s].slept <= Ms(call[s].expires_in * 1000)

(***************************************************************************)
(* Claims on the OAuth provider and on the manager's refresh and revoke    *)
(***************************************************************************)

\* the provider the manager's call works on
ensured == ensureProvider(mgrConfig, provider, initialized, store).provider

\* the refresh of OAuth provider p, answered by resp, cannot succeed
refreshFails(p, resp) == p.refreshToken = NoToken \/ ~resp.ok

\* C16: OAuthAuthProvider.refresh() made without a refresh token, or whose request fails,
\* returns false and leaves the provider unauthenticated; getToken() on a stale token whose
\* refresh fails returns null
C16_FailedRefreshUnauthenticates ==
    [][mgrConfig.method = "oauth" =>
        \A resp \in OAuthResponses \cup {NoResponse} :
            /\ (provider.present /\ refresh(resp) /\ refreshFails(provider, resp)) =>
                    /\ amLast'.result = "failure"
                    /\ ~providerIsAuthenticated(mgrConfig, provider', now')
            /\ (getToken(resp) /\ ensured.accessToken # NoToken /\ shouldRefresh(ensured, now)
                    /\ refreshFails(ensured, resp)) =>
                    /\ amLast'.result = "null"
                    /\ ~providerIsAuthenticated(mgrConfig, provider', now')]_vars

C16_Witness ==
    /\ mgrConfig.method = "oauth" /\ amLast.op = "getToken" /\ amLast.result = "null"
    /\ provider.accessToken # NoToken /\ provider.refreshToken # NoToken
    /\ ~isExpired(provider, now) /\ shouldRefresh(provider, now)
    /\ ~provider.authenticated

\* the token an OAuth provider holds, as the plugin's auth details
heldAuth == [access |-> provider.accessToken, expires |-> provider.tokenExpiresAt]

\* C17: every staleness test on an OAuth token compares its expiry with now + 300000 ms: a token
\* that expires before that (4 minutes from now) is stale and one that expires after it
\* (6 minutes from now) is not, for accessTokenExpired, tokenNeedsRefresh, the provider's
\* getToken test and the provider's isAuthenticated alike
C17_StalenessUsesBuffer ==
    (mgrConfig.method = "oauth" /\ provider.authenticated /\ provider.accessToken # NoToken) =>
        /\ provider.tokenExpiresAt < now + 300000 =>
                /\ accessTokenExpired(heldAuth, now)
                /\ tokenNeedsRefresh(provider.tokenExpiresAt, now)
                /\ shouldRefresh(provider, now)
                /\ ~providerIsAuthenticated(mgrConfig, provider, now)
        /\ provider.tokenExpiresAt > now + 300000 =>
                /\ ~accessTokenExpired(heldAuth, now)
                /\ ~tokenNeedsRefresh(provider.tokenExpiresAt, now)
                /\ ~shouldRefresh(provider, now)
                /\ providerIsAuthenticated(mgrConfig, provider, now)

\* C18: a refresh that succeeds leaves as the kept refresh token the one of the response when
\* the response carries one, and the refresh token kept before it otherwise, never an empty
\* one: in OAuthAuthProvider.refresh (the provider's field) and in oauthFetch (the host's
\* stored credential)
C18_RefreshTokenKept ==
    [][\A resp \in OAuthResponses :
        /\ (oauthRefresh(resp) /\ provider.refreshToken # NoToken) =>
                /\ provider'.refreshToken =
                        IF resp.hasRefreshToken THEN <<"rt", issued>> ELSE provider.refreshToken
                /\ provider'.refreshToken # NoToken
        /\ \A c \in FetchCalls :
                refreshReturned(c, resp) =>
                    /\ hostAuth'.refresh =
                            IF resp.hasRefreshToken THEN <<"rt", issued>> ELSE hostAuth.refresh
                    /\ hostAuth'.refresh # NoToken]_vars

\* C19: when AuthManager.refresh() returns true the credentials file has been rewritten, at
\* that call, with the token information the provider now holds; when it returns false the
\* credentials file is as it was
C19_RefreshRewritesStore ==
    [][\A resp \in OAuthResponses \cup {NoResponse} :
        refresh(resp) =>
            IF amLast'.result = "success"
            THEN /\ store'.exists
                 /\ store'.updatedAt = now
                 /\ store'.credentials =
                        tokenInfoToStoredCredentials(getTokenInfo(mgrConfig, provider'))
            ELSE store' = store]_vars

\* AuthManager.isAuthenticated() of a manager whose provider field is p
managerIsAuthenticated(p, t) == p.present /\ providerIsAuthenticated(mgrConfig, p, t)

\* C20: AuthManager.revoke() leaves the provider unauthenticated (isAuthenticated() is false
\* right after it), its tokens cleared, and the credentials file exactly as it was
C20_RevokeClearsMemoryOnly ==
    [][revoke =>
        /\ ~managerIsAuthenticated(provider', now')
        /\ ~provider'.authenticated
        /\ getTokenInfo(mgrConfig, provider') = NoTokenInfo
        /\ store' = store]_vars

C20_Witness ==
    /\ amLast.op = "revoke"
    /\ provider.present /\ ~provider.authenticated
    /\ store.exists /\ store.credentials.token # NoToken

(***************************************************************************)
(* Claims on the credentials file and on encryption (SpecCS)               *)
(***************************************************************************)

\* a loadCredentials made on the file as a saveCredentials left it, with the password of that save
loadOfSaved == csLast.op = "load" /\ csLast.saved /\ csLast.password = csLast.savedWith

\* the credential a load returned is the one given to the save: the same API key, the version
\* read as saveCredentials normalises it, updatedAt the time of the save
sameLogical ==
    /\ ~csLast.null /\ ~csLast.raw
    /\ csLast.value.apiKey = csLast.c.apiKey
    /\ csLast.value.version = (IF csLast.c.version = 0 THEN 1 ELSE csLast.c.version)
    /\ csLast.value.updatedAt = csLast.savedAt

\* a decrypt made with the password of the encrypt on the envelope as encrypt returned it
decryptOfEncrypted ==
    box.decrypted /\ box.with = box.password /\ box.envelope.version = 1

\* no unpaired surrogate
RECURSIVE wellFormed(_)
wellFormed(s) ==
    IF s = << >> THEN TRUE
    ELSE IF Len(s) >= 2 /\ s[1] = "hi" /\ s[2] = "lo" THEN wellFormed(SubSeq(s, 3, Len(s)))
    ELSE s[1] \notin {"hi", "lo"} /\ wellFormed(Tail(s))

\* C21 as stated: a load that follows a save with the same key returns the saved credential,
\* and decrypt(encrypt(x, k), k) = x for every plaintext x
C21_Original ==
    /\ loadOfSaved => sameLogical
    /\ decryptOfEncrypted => (~box.threw /\ box.text = box.plaintext)

\* C21: saveCredentials(c, encrypt, key) followed, with no write in between and also after a
\* restart, by loadCredentials(key) returns the logical credential c, for encrypt true and
\* false; decrypt(encrypt(x, k), k) = x for every plaintext x without an unpaired surrogate,
\* and every text saveCredentials encrypts is such a plaintext
C21_SaveLoadRoundTrip ==
    /\ loadOfSaved => sameLogical
    /\ (decryptOfEncrypted /\ wellFormed(box.plaintext)) => (~box.threw /\ box.text = box.plaintext)
    /\ \A c \in Credentials : wellFormed(stringify(stamped(c, now)))

C21_Witness ==
    /\ loadOfSaved /\ csLast.restarted /\ csLast.encrypt
    /\ csLast.c.apiKey = <<"hi">> /\ csLast.value.apiKey = <<"hi">>
    /\ csLast.password = ""

\* the file the last load found cannot be decrypted with the password the load was given
undecryptable ==
    /\ credFile.kind = "storage" /\ credFile.hasMetadata
    /\ credFile.encrypted /\ credFile.form = "envelope"
    /\ decryptObject(credFile.envelope, csLast.password).threw

\* C22: loadCredentials never throws, and it returns null when the file is absent, unreadable,
\* not valid JSON, a tombstone without credentials, or cannot be decrypted with the given key
C22_LoadNeverThrows ==
    csLast.op = "load" =>
        /\ ~csLast.threw
        /\ csLast.found \in {"absent", "unreadable", "garbage", "null", "tombstone"} => csLast.null
        /\ undecryptable => csLast.null

\* a load with another password than the one of the save returned null
C22_Witness ==
    /\ csLast.op = "load" /\ csLast.saved /\ csLast.encrypt
    /\ effectiveKey(csLast.password) # effectiveKey(csLast.savedWith)
    /\ undecryptable /\ csLast.null /\ ~csLast.threw

\* a load of a file that is not JSON returned null
C22_WitnessGarbage == csLast.op = "load" /\ csLast.found = "garbage" /\ csLast.null


\* C23 as stated: decrypt returns plaintext only when the version is 1 and the password is the
\* password that encrypt was given
C23_Original ==
    box.decrypted =>
        (~box.threw <=> (box.envelope.version = 1 /\ box.with = box.password))

\* C23: decrypt fails closed.  It returns plaintext only when the envelope's version is 1 and
\* its key is the key of the encrypt, where an absent and an empty password both stand for the
\* machine key; with any other key, or any other version, it throws and returns no plaintext
C23_DecryptFailsClosed ==
    box.decrypted =>
        /\ ~box.threw <=> (/\ box.envelope.version = 1
                           /\ effectiveKey(box.with) = effectiveKey(box.password))
        /\ box.threw => box.text = << >>

\* a decrypt with another key threw, on an envelope of the supported version
C23_Witness ==
    /\ box.decrypted /\ box.threw /\ box.envelope.version = 1
    /\ box.password = "k1" /\ box.with = "" /\ box.plaintext # << >>

\* a decrypt with the key of the encrypt threw on an envelope of another version
C23_WitnessVersion ==
    /\ box.decrypted /\ box.threw /\ box.envelope.version = 2
    /\ box.with = box.password /\ box.plaintext # << >>


(***************************************************************************)
(* Further claims on the AuthManager (SpecAM)                              *)
(***************************************************************************)
\* C24: authenticate() of every provider variant and AuthManager.authenticate() report an
\* authentication failure as a returned {success: false, error} value, never as a throw:
\* a manager call ends rejected by the limiter, awaiting its provider, or with the success or
\* the failure its provider returned, and no provider's authenticate() throws in any state
C24_FailureIsReturned ==
    /\ amLast.op \in {"authenticate", "authenticateDone"} =>
            amLast.result \in {"rateLimited", "awaiting", "success", "failure"}
    /\ provider.present =>
            \A resp \in OAuthResponses \cup {NoResponse} :
                ~authenticateResult(mgrConfig, provider, resp, now, amSteps).threw
    /\ ~apiKeyAuthenticate(mgrConfig, provider).threw

\* a JWT provider whose key does not load: the manager's call returned the failure
C24_Witness ==
    /\ amLast.op = "authenticateDone" /\ amLast.result = "failure"
    /\ mgrConfig.method = "jwt" /\ ~mgrConfig.credentialOk

\* an OAuth provider whose code exchange failed: the manager's call returned the failure
C24_WitnessOAuth ==
    /\ amLast.op = "authenticateDone" /\ amLast.result = "failure"
    /\ mgrConfig.method = "oauth"


(***************************************************************************)
(* Further claims on the credentials file (SpecCS)                         *)
(***************************************************************************)
\* C25: across saveCredentials calls that overwrite an existing credentials file,
\* metadata.createdAt keeps the value written by the first save and metadata.updatedAt is
\* the time of the latest save
C25_CreatedAtKept ==
    (csLast.op = "save" /\ ~csLast.threw) =>
        /\ credFile.kind = "storage" /\ credFile.hasMetadata
        /\ credFile.createdAt = csLast.firstSaveAt
        /\ credFile.updatedAt = csLast.at

\* a save made later than the first one overwrote the file
C25_Witness ==
    /\ csLast.op = "save" /\ ~csLast.threw /\ csLast.found = "storage"
    /\ csLast.firstSaveAt = 1 /\ csLast.at = 2
    /\ credFile.createdAt = 1 /\ credFile.updatedAt = 2


(***************************************************************************)
(* Further claims on the RateLimiter (SpecRL)                              *)
(***************************************************************************)
\* a call on one identifier
callOn(id) == recordAttempt(id) \/ isRateLimited(id) \/ reset(id)

\* C26: rate-limit state is kept per identifier.  recordAttempt, isRateLimited and reset on one
\* identifier leave the attempts, window and lockout of every other identifier as they were,
\* and an identifier none of whose attempts is counted is not rejected, whatever has been
\* done on the others
C26_PerIdentifier ==
    [][\A id \in Identifiers : callOn(id) =>
          \A o \in Identifiers \ {id} :
              /\ states'[o] = states[o]
              /\ winCalls[o].n = 0 =>
                    /\ recordAttemptOn(rlConfig, states'[o], now').ret
                    /\ ~isRateLimitedOn(rlConfig, states'[o], now').ret]_vars

\* one identifier is locked out and an attempt on the other has just been allowed
C26_Witness ==
    /\ rlConfig.enabled
    /\ lockStatus(states["default"], now) = "active"
    /\ rlLast.op = "recordAttempt" /\ rlLast.id = "user1" /\ rlLast.ret
    /\ states["user1"].attempts = 1


\* the calls made on entry a and on entry b at time t return the same and leave the same
sameResults(a, b, t) ==
    /\ recordAttemptOn(rlConfig, a, t) = recordAttemptOn(rlConfig, b, t)
    /\ isRateLimitedOn(rlConfig, a, t) = isRateLimitedOn(rlConfig, b, t)
    /\ getRemainingAttemptsOn(rlConfig, a, t) = getRemainingAttemptsOn(rlConfig, b, t)

\* C27: the sweep removes only entries whose window has expired and whose lockout, if any, has
\* passed, and a sweep never changes what a later isRateLimited, recordAttempt or
\* getRemainingAttempts call returns for any identifier
C27_SweepIsInvisible ==
    [][cleanup =>
          \A id \in Identifiers :
              /\ states'[id] # states[id] =>
                    /\ states'[id] = NoState
                    /\ windowExpired(rlConfig, states[id], now)
                    /\ states[id].lockedUntil = 0 \/ now > states[id].lockedUntil
              /\ \A t \in now..MaxTime : sameResults(states'[id], states[id], t)]_vars

\* the sweep has removed the entry of an identifier that had been locked out
C27_Witness ==
    /\ rlConfig.enabled
    /\ rlLast.op = "recordAttempt" /\ rlLast.id = "default" /\ ~rlLast.ret
    /\ ~states["default"].present


(***************************************************************************)
(* Further claims on oauthFetch (SpecOF)                                   *)
(***************************************************************************)
\* call c issues its downstream request in this step
issues(c) == fetchCall[c].pc # "requesting" /\ fetchCall'[c].pc = "requesting"

\* what oauthFetch finds: an OAuth credential that is stale and has a refresh token
staleWithRefresh == hostAuth.type = "oauth" /\ accessTokenExpired(hostAuth, now) /\ hostAuth.refresh # NoToken

\* C28: when oauthFetch finds the OAuth access token stale and a refresh token present, it
\* first refreshes, then stores the new credential through client.auth.set, and only then
\* issues the downstream request, which carries the refreshed access token (the one in the
\* host's store after the set: its own, or the one of a refresh stored after its own); when
\* the refresh fails it throws and issues no downstream request
C28_RefreshThenSetThenRequest ==
    [][\A c \in FetchCalls :
          /\ (oauthFetch(c) /\ staleWithRefresh) =>
                /\ fetchCall'[c].pc = "refreshing"
                /\ fetchCall'[c].sent = NoToken
          /\ fetchCall[c].pc = "refreshing" =>
                \/ fetchCall'[c].pc = "refreshing"
                \/ /\ fetchCall'[c].pc = "reading"
                   /\ fetchCall'[c].sent = NoToken
                   /\ hostAuth'.access = fetchCall'[c].fresh
                   /\ fetchCall'[c].fresh \notin {NoToken, fetchCall[c].auth.access}
                \/ /\ fetchCall'[c].pc = "idle"
                   /\ fetchCall'[c].outcome = "refreshFailed"
                   /\ fetchCall'[c].sent = NoToken
          /\ (issues(c) /\ fetchCall[c].pc # "idle") =>
                /\ fetchCall[c].pc = "reading"
                /\ fetchCall'[c].sent = hostAuth.access
                /\ fetchCall'[c].sent[1] = "at"
                /\ fetchCall'[c].sent[2] >= fetchCall[c].fresh[2]
                /\ fetchCall'[c].sent # fetchCall[c].auth.access]_vars

\* a call that found the token stale has sent its request with the token of its own refresh
C28_Witness ==
    \E c \in FetchCalls :
        /\ fetchCall[c].pc = "requesting" /\ fetchCall[c].stale
        /\ fetchCall[c].fresh # NoToken /\ fetchCall[c].sent = fetchCall[c].fresh

\* a call whose refresh failed has thrown without a request
C28_WitnessFailed ==
    \E c \in FetchCalls :
        /\ fetchCall[c].outcome = "refreshFailed" /\ fetchCall[c].stale
        /\ fetchCall[c].sent = NoToken

\* a call has sent the token of another call's later refresh
C28_WitnessOther ==
    \E c \in FetchCalls :
        /\ fetchCall[c].pc = "requesting" /\ fetchCall[c].fresh # NoToken
        /\ fetchCall[c].sent # fetchCall[c].fresh


(***************************************************************************)
(* Claims on two concurrent device-flow sessions (SpecDF2)                 *)
(***************************************************************************)
\* a step of session s: a call on the object, an answer to its request, its timer
sessionStep(s) ==
    \/ startAuthorization(s)
    \/ \E i \in TwoSessionIntervals, e \in TwoSessionExpiresIn : startAuthorizationOk(s, i, e)
    \/ startAuthorizationFail(s)
    \/ waitForAuthorization(s)
    \/ pollPending(s)
    \/ pollSlowDown(s)
    \/ \E p \in TokenPayloads : pollToken(s, p)
    \/ pollError(s)
    \/ wake(s)
    \/ cancel(s)

\* session s has an HTTP call in flight
httpInFlight(s) == flowPc[s] \in {"starting", "polling"}

\* C29: two sessions running concurrently do not affect each other.  A step of one session,
\* its cancel and its slow_down included, leaves the other session's device code, code
\* verifier, poll interval, attempt budget, flag, position and outcome as they were; a session
\* ends cancelled only when its own cancel() was called; a session sends a request only when
\* it has none in flight
C29_SessionsIndependent ==
    [][\A s \in Sessions : sessionStep(s) =>
          /\ \A o \in Sessions \ {s} :
                /\ flow'[o] = flow[o]
                /\ flowPc'[o] = flowPc[o]
                /\ call'[o] = call[o]
                /\ call'[o].outcome = "cancelled" => flow'[o].cancelled
          /\ (httpInFlight(s)' /\ (call'[s].polls # call[s].polls \/ startAuthorization(s))) =>
                ~httpInFlight(s)]_vars

\* session 1 was slowed down and cancelled during its sleep while session 2, untouched, has
\* its second poll in flight at the interval its own server answer gave
C29_Witness ==
    /\ flowPc[1] = "sleeping" /\ call[1].slowDowns = 1 /\ flow[1].cancelled
    /\ flowPc[2] = "polling" /\ call[2].attempt = 1 /\ ~flow[2].cancelled
    /\ flow[2].pollInterval = Ms(1000) /\ flow[2].deviceCode # flow[1].deviceCode


(***************************************************************************)
(* Claims on concurrent authenticate calls (SpecAM)                        *)
(***************************************************************************)
\* C30: once an identifier is locked out, every authenticate(identifier) call that starts
\* before lockedUntil is rejected, and the success of an authentication that was in flight
\* when the lockout began leaves the lockout in force
C30_LockoutSurvivesInFlightSuccess ==
    [][\A id \in ManagerIdentifiers :
          /\ (authenticate(id) /\ isLockedOut(states[id], now)) =>
                amLast'.result = "rateLimited"
          /\ (successStep(id) /\ isLockedOut(states[id], now)) =>
                isLockedOut(states'[id], now')]_vars


(***************************************************************************)
(* Further claims on one device-flow session (SpecDF)                      *)
(***************************************************************************)
\* C31: every token poll sent by waitForAuthorization carries a device_code and a
\* code_verifier of the same startAuthorization call (the device code issued for pair v is
\* written v), also when a later startAuthorization call on the object failed
C31_PollCarriesMatchingPair ==
    flowPc[1] = "polling" => call[1].pollDeviceCode = call[1].pollVerifier


(***************************************************************************)
(* Claims on concurrent oauthFetch calls (SpecOF)                          *)
(***************************************************************************)
\* C32: when several oauthFetch calls run concurrently and observe the same stale OAuth
\* credential, at most one refresh request is sent for its refresh token: no two calls have
\* a refresh request in flight for the credential they both read
C32_OneRefreshPerToken ==
    \A c \in FetchCalls : \A d \in FetchCalls \ {c} :
        ~(/\ fetchCall[c].pc = "refreshing"
          /\ fetchCall[d].pc = "refreshing"
          /\ fetchCall[c].auth = fetchCall[d].auth)


\* C33: with OAuth auth, oauthFetch never issues a downstream request that carries an access
\* token it has just judged stale: the token was fresh, or the call refreshed before the
\* request, or the call failed without sending
C33_NoStaleTokenSent ==
    \A c \in FetchCalls :
        (fetchCall[c].pc = "requesting" /\ fetchCall[c].auth.type = "oauth") =>
            \/ ~fetchCall[c].stale
            \/ fetchCall[c].fresh # NoToken


(***************************************************************************)
(* Claims on revoke and refresh (SpecAM, SpecOF)                           *)
(***************************************************************************)
\* C34: after AuthManager.revoke(), getToken() and refresh() return null / false and do not
\* re-establish authentication, for every provider variant: a getToken or refresh that is the
\* first manager call after a revoke of a live provider (so that no initialize() rehydrates)
\* leaves isAuthenticated() false and returns no token
C34_RevokedStaysRevoked ==
    [][(amLast.op = "revoke" /\ provider.present /\ amLast'.op \in {"getToken", "refresh"}) =>
          /\ ~managerIsAuthenticated(provider', now')
          /\ amLast'.result \in {"null", "failure"}]_vars


\* C35: whenever refresh() of a provider returns true, isAuthenticated() of that provider is
\* true immediately afterwards, also for the OAuth provider after an earlier failed refresh
\* and for a JWT provider that was never authenticated or was revoked
C35_RefreshedIsAuthenticated ==
    [][\A resp \in OAuthResponses \cup {NoResponse} :
          (refresh(resp) /\ amLast'.result = "success") =>
              providerIsAuthenticated(mgrConfig, provider', now')]_vars


\* C36: the credential persisted by AuthManager has the variant of the configured method: a
\* manager configured for api_key or jwt never leaves an oauth-shaped credential in the store
C36_StoredVariantMatchesMethod ==
    (store.exists /\ mgrConfig.method \in {"api_key", "jwt"}) =>
        store.credentials.kind # "oauth"


(***************************************************************************)
(* Further claims on the poll interval (SpecDF)                            *)
(***************************************************************************)
\* C37: within one device-flow session the poll interval never decreases: a slow_down answer
\* never shortens the delay before the next poll, whatever interval the server advertised
C37_IntervalNeverDecreases ==
    [][pollSlowDown(1) => flow'[1].pollInterval >= flow[1].pollInterval]_vars


(***************************************************************************)
(* Claims on the agreement of the limiter's queries (SpecRL)               *)
(***************************************************************************)
\* C38: for an enabled limiter, isRateLimited and recordAttempt agree in every reachable
\* state: isRateLimited(id) is true exactly when a recordAttempt(id) made at the same instant
\* would return false, and getRemainingAttempts(id) is 0 exactly in those states
C38_QueriesAgree ==
    rlConfig.enabled =>
        \A id \in Identifiers :
            /\ isRateLimitedOn(rlConfig, states[id], now).ret <=>
                    ~recordAttemptOn(rlConfig, states[id], now).ret
            /\ isRateLimitedOn(rlConfig, states[id], now).ret <=>
                    getRemainingAttemptsOn(rlConfig, states[id], now) = 0

\* the attempts are used up, no lockout has been set yet, and the next attempt would be refused
C38_Witness ==
    /\ rlConfig.enabled /\ rlConfig.maxAttempts = MaxCfgAttempts
    /\ states["default"].attempts = rlConfig.maxAttempts
    /\ states["default"].lockedUntil = 0
    /\ isRateLimitedOn(rlConfig, states["default"], now).ret
    /\ ~recordAttemptOn(rlConfig, states["default"], now).ret

\* a lockout has elapsed inside its window: still limited, and the next attempt locks again
C38_WitnessElapsed ==
    /\ rlConfig.enabled
    /\ lockStatus(states["default"], now) = "elapsed"
    /\ isRateLimitedOn(rlConfig, states["default"], now).ret
    /\ getRemainingAttemptsOn(rlConfig, states["default"], now) = 0

(***************************************************************************)
(* Claims on the limiter of a manager constructed after another (SpecAM)   *)
(***************************************************************************)

\* C39: each AuthManager enforces the rate-limit configuration it was constructed with,
\* also when another AuthManager with a different configuration was constructed earlier:
\* authenticate(identifier) admits the attempt exactly when a limiter of the manager's own
\* security.rateLimit would admit it on the identifier's entry.
C39_ManagerEnforcesOwnConfig ==
    [][\A id \in ManagerIdentifiers :
          authenticate(id) =>
              (amLast'.recordAttempt = "true"
                   <=> recordAttemptOn(mgrConfig.rateLimit, states[id], now).ret)]_vars

(***************************************************************************)
(* Claims on a save over any previous file (SpecCS)                        *)
(***************************************************************************)

\* C40: saveCredentials succeeds whatever the previous content of the credentials file
\* (absent, valid, tombstone or unparseable), and a loadCredentials that follows with the
\* same key returns the credential just saved.
C40_SaveSucceedsOnAnyFile ==
    /\ csLast.op = "save" => ~csLast.threw
    /\ loadOfSaved => sameLogical

====
